---------------------------- MODULE Spec2Model ----------------------------
(***************************************************************************)
(* A model of rust-cn-qbot: the command controller with its article cache  *)
(* (src/controller.rs, controller/爬取.rs, controller/发送.rs), the caching *)
(* authorizer (src/qbot/authorizer.rs) and the WebSocket engine's use of   *)
(* the auth-group lock (src/qbot/event/ws.rs).                             *)
(*                                                                         *)
(* The specifications of the module:                                       *)
(*   Spec      the controller, driven by concurrently running handler      *)
(*             tasks (handler.rs spawns one task per at-message), for a    *)
(*             bounded number of commands, from an empty cache or from a   *)
(*             cache holding GcThreshold articles;                         *)
(*   SeqSpec   the controller running any number of commands one at a      *)
(*             time, from the empty cache of ControllerImpl::new;          *)
(*   AuthSpec  QBotCachingAuthorizerImpl::get_access_token, called by      *)
(*             concurrent callers while a clock advances;                  *)
(*   WsSpec    the production and the sandbox engine running run_loop      *)
(*             against one QBotWebSocketAuthGroup.                         *)
(***************************************************************************)
EXTENDS Integers, Sequences, FiniteSets, TLC

(***************************************************************************)
(* Bounds of the model.                                                    *)
(***************************************************************************)
\* handler tasks that can be in progress at once
NumTasks == 2
\* the NumEditable earliest posts can be re-scraped with an edited title and
\* are the dates publish commands name
NumEditable == 1
\* titles an editable post can carry: 1..MaxTitle
MaxTitle == 2
\* dates the site serves beyond those that fill the cache to its threshold
SpareDates == 2
\* commands the handlers of Spec begin
MaxCommands == 2

\* concurrent callers of get_access_token
NumCallers == 2
\* the clock of AuthSpec runs over 0..MaxClock seconds
MaxClock == 1
\* token requests the platform answers
MaxRequests == 2
\* the platform's expires_in lies in (RefreshMargin - 1)..(RefreshMargin + MaxLifetime)
MaxLifetime == 1
\* WebSocket engines of the process that share the auth group
NumEngines == 2
\* inbound envelopes carry sequence numbers in -2..MaxSeq, or none
MaxSeq == 1
\* READY announces a session_id in 1..MaxSession
MaxSession == 2
\* the authorizer hands out tokens 1..MaxToken
MaxToken == 2

(***************************************************************************)
(* Program constants.                                                      *)
(***************************************************************************)
\* 爬取.rs:22  `if posts.len() > 20`
GcThreshold == 20
\* authorizer.rs:92  `expires_in - 60`
RefreshMargin == 60
\* ws.rs:168  `session.heartbeat_interval = 30`
HeartbeatInterval == 30
\* ws.rs:240  `sleep(Duration::from_secs(5))`
BackoffSecs == 5

\* dates the source site can serve
MaxDate == NumEditable + GcThreshold + SpareDates
Dates == 1..MaxDate
Tasks == 1..NumTasks
Titles == 1..MaxTitle
EditableDates == 1..NumEditable

NoPost == [date |-> 0, title |-> 0]
\* a reply: the GC text or "", the fixed text, and the date it names (0: none)
Reply(gc, text, date) == [gc |-> gc, text |-> text, date |-> date]
NoReply == Reply("", "", 0)
NoCmd == [op |-> "none", arg |-> 0]

\* the origin 爬取 requires (爬取.rs:9)
Origin == <<"https://rustcc.cn">>
\* urls a scrape command can carry, as sequences of text pieces
Urls == { <<"https://rustcc.cn", "/article?id=1">>,
          <<"https://rustcc.cn", ".example.com", "/x">>,
          <<"http://example.com", "/test">>,
          << >> }

\* The pieces of the reply texts.  The module's strings are ASCII; each
\* stands for the text of the source given beside it.
TxtInvalidLink == "qing shuru hefa de lianjie"   \* "请输入合法的链接"  爬取.rs:10
TxtScrapeFailed == "paqu shibai: "               \* "爬取失败: "        爬取.rs:15
TxtGcDone == "qingli wancheng, "                 \* "清理完成，"        爬取.rs:24
TxtRescraped == "chongxin paqu chenggong: "      \* "重新爬取成功: "    爬取.rs:34
TxtScraped == "paqu chenggong: "                 \* "爬取成功: "        爬取.rs:40
TxtNotFound == "meiyou zhaodao {} de ribao"      \* "没有找到 {} 的日报" 发送.rs:80
TxtPublished == "fasong chenggong: "             \* "发送成功: "        发送.rs:107
TxtPublishFailed == "fasong shibai: "            \* "发送失败: "        发送.rs:112

\* str::strip_prefix(p).is_some()
HasPrefix(s, p) == Len(s) >= Len(p) /\ SubSeq(s, 1, Len(p)) = p

VARIABLES
    \* ---- controller ----
    posts,           \* ControllerImpl.posts: date -> title of the cached article
    pc,              \* per task: where the handler is suspended
    post,            \* per task: the article fetched (爬取) or cloned (发送)
    gcDone,          \* per task: gc_done_text is non-empty
    reply,           \* per task: the reply string
    cmd,             \* history: per task, the command being handled
    outcome,         \* history: per task, how the command's outbound call ended
    cacheAtGc,       \* history: the cache the task's capacity check found
    touched,         \* history: the task's command has changed the cache
    stale,           \* history: the date of the cloned article was re-inserted
    threadPublishes, \* history: successful thread publishes per insertion of a date
    crawlerCalls,    \* history: per task, fetch_post calls of the current command
    sendCalls,       \* history: per task, send_channel_thread_html calls
    limited,         \* the environment sends a bounded number of commands
    budget,          \* when limited: commands the environment still sends
    \* ---- authorizer ----
    clock,           \* Instant::now(), in whole seconds
    overflowChecks,  \* the build panics on integer overflow (debug profile)
    lastResponse,    \* QBotCachingAuthorizerImpl.last_response
    lockQueue,       \* the TokioMutex: callers in lock().await, first come first served
    lockHolder,      \* the TokioMutex: the caller holding the guard, 0 for none
    apc,             \* per caller: where get_access_token is suspended
    now,             \* per caller: the local `now`
    ret,             \* per caller: the result of the last call
    requests,        \* history: token requests sent to the platform
    mine,            \* history: per caller, requests the current call has sent
    respSeen,        \* history: per caller, responses that arrived during the call
    firstResp,       \* history: per caller, the first of these responses
    \* ---- WebSocket engines ----
    authGroup,       \* QBotWebSocketAuthGroup.mutex: the engine holding the guard, 0 for none
    wpc,             \* per engine: where run_loop is suspended
    initial,         \* per engine: the initial connect (TRUE) or a reconnect (FALSE)
    werr,            \* per engine: `err` of the retry loop
    wresult,         \* per engine: the result of run_loop
    \* ---- one WebSocket engine in detail ----
    quitRaised,      \* main.rs:254 quit_signal.notify_waiters() has been called
    notified,        \* the Notified future of the pending select has been notified
    epc,             \* where run_loop is suspended
    reconnect,       \* run_loop is in its retry loop (ws.rs:230-260)
    eerr,            \* `err` of the retry loop
    eresult,         \* the result of run_loop
    hello,           \* QBotWebSocketHandshaked.heartbeat_interval
    session,         \* QBotWebSocketSession: session_id, last_seq, heartbeat_interval, token
    wsClosed,        \* the socket of the session has delivered a close frame
    timer,           \* seconds the sleep of the pending select has run
    sinceHb,         \* history: seconds in the receive loop since the last HEARTBEAT
    slept,           \* history: seconds of back-off slept before the current reconnect
    cause,           \* history: the error that ended the receive loop
    closeCode,       \* history: the close code the server ended the connection with
    interrupted,     \* history: the session when the receive loop ended
    identifies,      \* history: IDENTIFY sent since the receive loop ended
    resumes,         \* history: RESUME sent since the receive loop ended
    sent,            \* history: the last message sent
    fresh,           \* the session authenticate builds (ws.rs:145-151)
    seen,            \* history: sequence numbers received in the session
    \* ---- webhook server ----
    whQuit,          \* main.rs:254 quit_signal.notify_waiters() has been called
    whNotified,      \* the Notified future of the pending select has been notified
    whpc,            \* where the transport's run is suspended
    backlog,         \* connections the listener holds ready for accept()
    arrived,         \* connections that have arrived so far
    inflight,        \* spawned connections that have not finished
    waited,          \* seconds the timeout of shutdown() has run
    whResult,        \* the result of the transport's run
    lateAccepts,     \* history: a connection was accepted after the signal was raised
    \* ---- dispatch of received events ----
    dloop,           \* run_loop_inner is receiving, or has ended with an error
    received,        \* history: the events received, in the order of arrival
    handed,          \* history: the events handed to the handler, by arrival number
    htask,           \* per event: the task the handler spawned for it
    hbReplies,       \* history: HEARTBEAT frames sent in answer to OP_HEARTBEAT
    \* ---- the dispatcher's task for one at-message ----
    hmsg,            \* the AtMessageCreatePayload: author, command, channel_id, id
    mpc,             \* where EventHandlerInner::handle_at_message is suspended
    ops,             \* history: the controller operations invoked
    calls,           \* history: the outbound calls made, in order
    replyMsg,        \* reply_msg
    \* ---- webhook service (one request at a time) ----
    sreq,            \* the request QBotWebhookService::call was given
    spc,             \* where call is suspended
    bodyRead,        \* history: req.collect() has been awaited for this request
    svHanded,        \* history: handler invocations made for this request
    resp,            \* the value call returned for this request
    \* ---- HTML sanitizer ----
    html,            \* the content_html given to process_html, as tags and text
    once,            \* process_html(html)
    twice,           \* process_html(process_html(html))
    zpc,             \* how many times the sanitizer has been applied
    \* ---- the engine's wait for READY ----
    readyMsg         \* history: the envelope that answered the last IDENTIFY

ctlVars == <<posts, pc, post, gcDone, reply, cmd, outcome, cacheAtGc, touched,
             stale, threadPublishes, crawlerCalls, sendCalls, limited, budget>>

authVars == <<clock, overflowChecks, lastResponse, lockQueue, lockHolder, apc, now,
              ret, requests, mine, respSeen, firstResp>>

wsVars == <<authGroup, wpc, initial, werr, wresult>>

engVars == <<quitRaised, notified, epc, reconnect, eerr, eresult, hello, session,
             wsClosed, timer, sinceHb, slept, cause, closeCode, interrupted,
             identifies, resumes, sent, fresh, seen>>

whVars == <<whQuit, whNotified, whpc, backlog, arrived, inflight, waited, whResult,
            lateAccepts>>

dVars == <<dloop, received, handed, htask, hbReplies>>

\* the variables of the parts below the transports
hVars == <<hmsg, mpc, ops, calls, replyMsg>>

\* the variables of the webhook service
svVars == <<sreq, spc, bodyRead, svHanded, resp>>

\* the variables of the HTML sanitizer
sanVars == <<html, once, twice, zpc>>

\* what the engine remembers of the answer to IDENTIFY
ehVars == <<readyMsg>>

\* the parts below the engine, without its history of the answer to IDENTIFY
lowVars == <<dVars, hVars, svVars, sanVars>>

restVars == <<lowVars, ehVars>>

\* the variables of the controller, the authorizer and the transports
upperVars == <<ctlVars, authVars, wsVars, engVars, whVars>>

vars == <<ctlVars, authVars, wsVars, engVars, whVars, restVars>>

Len_(m) == Cardinality(DOMAIN m)

\* BTreeMap::insert: the new map
MapInsert(m, k, v) == [d \in (DOMAIN m) \cup {k} |-> IF d = k THEN v ELSE m[d]]
\* BTreeMap::remove: the new map
MapRemove(m, k) == [d \in (DOMAIN m) \ {k} |-> m[d]]
\* BTreeMap::default
EmptyMap == [d \in {} |-> 0]

Min(S) == CHOOSE x \in S : \A y \in S : x <= y

(***************************************************************************)
(* The crawler (out of scope of the controller: crawler.rs fetches the     *)
(* page).  The site serves one post per date.  A fetch returns one of the  *)
(* editable posts with any title, or the earliest later post that is not   *)
(* cached at the time of the fetch.                                        *)
(***************************************************************************)
NextNew(m) == LET missing == {d \in Dates : d > NumEditable /\ d \notin DOMAIN m}
              IN IF missing = {} THEN {} ELSE {Min(missing)}

FetchablePosts(m) ==
    {[date |-> d, title |-> ti] : d \in EditableDates, ti \in Titles}
    \cup {[date |-> d, title |-> 1] : d \in NextNew(m)}

\* the cache after GcThreshold scrapes of later posts (reached by SeqSpec)
FilledCache == [d \in (NumEditable + 1)..(NumEditable + GcThreshold) |-> 1]
\* caches the concurrent handlers start from, each reached by SeqSpec: empty or
\* filled, without or with the first editable post
StartCaches == {EmptyMap, FilledCache, MapInsert(EmptyMap, 1, 1), MapInsert(FilledCache, 1, 1)}

InitTasks ==
    /\ pc = [t \in Tasks |-> "idle"]
    /\ post = [t \in Tasks |-> NoPost]
    /\ gcDone = [t \in Tasks |-> FALSE]
    /\ reply = [t \in Tasks |-> NoReply]
    /\ cmd = [t \in Tasks |-> NoCmd]
    /\ outcome = [t \in Tasks |-> "none"]
    /\ cacheAtGc = [t \in Tasks |-> EmptyMap]
    /\ touched = [t \in Tasks |-> FALSE]
    /\ stale = [t \in Tasks |-> FALSE]
    /\ threadPublishes = [d \in EditableDates |-> 0]
    /\ crawlerCalls = [t \in Tasks |-> 0]
    /\ sendCalls = [t \in Tasks |-> 0]

\* controller.rs:31-38 ControllerImpl::new
InitSeq ==
    /\ posts = EmptyMap
    /\ limited = FALSE
    /\ budget = 0
    /\ InitTasks

InitCtl ==
    /\ posts \in StartCaches
    /\ limited = TRUE
    /\ budget = MaxCommands
    /\ InitTasks

Bump(n) == IF n < 2 THEN n + 1 ELSE 2

\* one more command can be received, and is
CanBegin == ~limited \/ budget > 0
Spend == IF limited THEN budget - 1 ELSE budget

(***************************************************************************)
(* 爬取 (controller/爬取.rs:7-46), one action per stretch between two       *)
(* suspension points or lock acquisitions.                                 *)
(***************************************************************************)
\* 爬取.rs:9-12: the prefix check, then the call of the crawler
ScrapeBegin(t, url) ==
    /\ pc[t] = "idle"
    /\ CanBegin
    /\ budget' = Spend
    /\ IF HasPrefix(url, Origin)
       THEN /\ pc' = [pc EXCEPT ![t] = "fetching"]
            /\ crawlerCalls' = [crawlerCalls EXCEPT ![t] = @ + 1]
            /\ reply' = reply
       ELSE /\ pc' = [pc EXCEPT ![t] = "replying"]
            /\ reply' = [reply EXCEPT ![t] = Reply("", TxtInvalidLink, 0)]
            /\ crawlerCalls' = crawlerCalls
    /\ cmd' = [cmd EXCEPT ![t] = [op |-> "paqu", arg |-> url]]
    /\ UNCHANGED <<limited, posts, post, gcDone, outcome, cacheAtGc, touched, stale,
                   threadPublishes, sendCalls>>
    /\ UNCHANGED <<authVars, wsVars, engVars, whVars, restVars>>

\* 爬取.rs:12-17: fetch_post returns
ScrapeFetched(t, res) ==
    /\ pc[t] = "fetching"
    /\ IF res = NoPost
       THEN /\ pc' = [pc EXCEPT ![t] = "replying"]
            /\ reply' = [reply EXCEPT ![t] = Reply("", TxtScrapeFailed, 0)]
            /\ post' = post
       ELSE /\ pc' = [pc EXCEPT ![t] = "fetched"]
            /\ post' = [post EXCEPT ![t] = res]
            /\ reply' = reply
    /\ outcome' = [outcome EXCEPT ![t] = IF res = NoPost THEN "fetch_err" ELSE "fetch_ok"]
    /\ UNCHANGED <<limited, budget, posts, gcDone, cmd, cacheAtGc, touched, stale,
                   threadPublishes, crawlerCalls, sendCalls>>
    /\ UNCHANGED <<authVars, wsVars, engVars, whVars, restVars>>

\* mutants of the capacity test: one entry late, one entry early
NeedsGcLate(m) == Len_(m) > GcThreshold + 1
NeedsGcEarly(m) == Len_(m) >= GcThreshold

\* 爬取.rs:22: the capacity test
NeedsGc(m) == Len_(m) > GcThreshold

\* 爬取.rs:19-26: first critical section
ScrapeGc(t) ==
    /\ pc[t] = "fetched"
    /\ posts' = IF NeedsGc(posts) THEN EmptyMap ELSE posts
    /\ gcDone' = [gcDone EXCEPT ![t] = NeedsGc(posts)]
    /\ cacheAtGc' = [cacheAtGc EXCEPT ![t] = posts]
    /\ touched' = [touched EXCEPT ![t] = (posts' # posts)]
    /\ pc' = [pc EXCEPT ![t] = "inserting"]
    /\ UNCHANGED <<limited, budget, post, reply, cmd, outcome, stale, threadPublishes,
                   crawlerCalls, sendCalls>>
    /\ UNCHANGED <<authVars, wsVars, engVars, whVars, restVars>>

\* mutant of the reply: the previous article is not looked at
ScrapeReplyNeverAgain(gc, hadOld, p) ==
    Reply(IF gc THEN TxtGcDone ELSE "", TxtScraped, p.date)

\* 爬取.rs:32-44: the reply of a successful scrape
ScrapeReply(gc, hadOld, p) ==
    Reply(IF gc THEN TxtGcDone ELSE "",
          IF hadOld THEN TxtRescraped ELSE TxtScraped,
          p.date)

\* 爬取.rs:28-44: second critical section, then the reply is formatted
ScrapeInsert(t) ==
    /\ pc[t] = "inserting"
    /\ posts' = MapInsert(posts, post[t].date, post[t].title)
    /\ reply' = [reply EXCEPT ![t] =
                    ScrapeReply(gcDone[t], post[t].date \in DOMAIN posts, post[t])]
    /\ pc' = [pc EXCEPT ![t] = "replying"]
    /\ stale' = [u \in Tasks |->
                    IF pc[u] = "sending" /\ post[u].date = post[t].date
                    THEN TRUE ELSE stale[u]]
    /\ threadPublishes' = [d \in EditableDates |->
                              IF d = post[t].date THEN 0 ELSE threadPublishes[d]]
    /\ touched' = [touched EXCEPT ![t] = TRUE]
    /\ UNCHANGED <<limited, budget, post, gcDone, cmd, outcome, cacheAtGc, crawlerCalls, sendCalls>>
    /\ UNCHANGED <<authVars, wsVars, engVars, whVars, restVars>>

(***************************************************************************)
(* 发送 (controller/发送.rs:77-114).                                        *)
(***************************************************************************)
\* mutant of the lookup: a missing entry is not noticed
LookupAlwaysSome(m, date) ==
    [date |-> date, title |-> IF date \in DOMAIN m THEN m[date] ELSE 1]

\* 发送.rs:79: the entry cloned under the lock, NoPost for None
Lookup(m, date) == IF date \in DOMAIN m THEN [date |-> date, title |-> m[date]] ELSE NoPost

\* 发送.rs:79-102: lookup under the lock, then the thread-publish call is made
PublishLookup(t, date) ==
    /\ pc[t] = "idle"
    /\ CanBegin
    /\ budget' = Spend
    /\ IF Lookup(posts, date) = NoPost
       THEN /\ pc' = [pc EXCEPT ![t] = "replying"]
            /\ reply' = [reply EXCEPT ![t] = Reply("", TxtNotFound, date)]
            /\ UNCHANGED <<post, sendCalls>>
       ELSE /\ pc' = [pc EXCEPT ![t] = "sending"]
            /\ post' = [post EXCEPT ![t] = Lookup(posts, date)]
            /\ sendCalls' = [sendCalls EXCEPT ![t] = @ + 1]
            /\ reply' = reply
    /\ cmd' = [cmd EXCEPT ![t] = [op |-> "fasong", arg |-> date]]
    /\ UNCHANGED <<limited, posts, gcDone, outcome, cacheAtGc, touched, stale,
                   threadPublishes, crawlerCalls>>
    /\ UNCHANGED <<authVars, wsVars, engVars, whVars, restVars>>

\* mutant of the removal: the cache is cleared
RemovePublishedAll(m, date) == EmptyMap

\* 发送.rs:105: what a successful publish does to the cache
RemovePublished(m, date) == MapRemove(m, date)

\* 发送.rs:103-113: send_channel_thread_html returns
PublishSent(t, ok) ==
    /\ pc[t] = "sending"
    /\ IF ok
       THEN /\ posts' = RemovePublished(posts, post[t].date)
            /\ reply' = [reply EXCEPT ![t] = Reply("", TxtPublished, post[t].date)]
            /\ threadPublishes' =
                   IF stale[t] THEN threadPublishes
                   ELSE [threadPublishes EXCEPT ![post[t].date] = Bump(@)]
       ELSE /\ posts' = posts
            /\ reply' = [reply EXCEPT ![t] = Reply("", TxtPublishFailed, 0)]
            /\ threadPublishes' = threadPublishes
    /\ pc' = [pc EXCEPT ![t] = "replying"]
    /\ outcome' = [outcome EXCEPT ![t] = IF ok THEN "send_ok" ELSE "send_err"]
    /\ touched' = [touched EXCEPT ![t] = (posts' # posts)]
    /\ UNCHANGED <<limited, budget, post, gcDone, cmd, cacheAtGc, stale, crawlerCalls, sendCalls>>
    /\ UNCHANGED <<authVars, wsVars, engVars, whVars, restVars>>

\* handler.rs:68-75: the reply is sent (or fails to be sent) and the task ends
ReplySent(t) ==
    /\ pc[t] = "replying"
    /\ pc' = [pc EXCEPT ![t] = "idle"]
    /\ post' = [post EXCEPT ![t] = NoPost]
    /\ gcDone' = [gcDone EXCEPT ![t] = FALSE]
    /\ reply' = [reply EXCEPT ![t] = NoReply]
    /\ cmd' = [cmd EXCEPT ![t] = NoCmd]
    /\ outcome' = [outcome EXCEPT ![t] = "none"]
    /\ cacheAtGc' = [cacheAtGc EXCEPT ![t] = EmptyMap]
    /\ touched' = [touched EXCEPT ![t] = FALSE]
    /\ stale' = [stale EXCEPT ![t] = FALSE]
    /\ crawlerCalls' = [crawlerCalls EXCEPT ![t] = 0]
    /\ sendCalls' = [sendCalls EXCEPT ![t] = 0]
    /\ UNCHANGED <<limited, budget, posts, threadPublishes>>
    /\ UNCHANGED <<authVars, wsVars, engVars, whVars, restVars>>

NextCtl ==
    \/ \E t \in Tasks, url \in Urls : ScrapeBegin(t, url)
    \/ \E t \in Tasks : \E res \in FetchablePosts(posts) \cup {NoPost} : ScrapeFetched(t, res)
    \/ \E t \in Tasks : ScrapeGc(t)
    \/ \E t \in Tasks : ScrapeInsert(t)
    \/ \E t \in Tasks, date \in EditableDates : PublishLookup(t, date)
    \/ \E t \in Tasks, ok \in BOOLEAN : PublishSent(t, ok)
    \/ \E t \in Tasks : ReplySent(t)


(***************************************************************************)
(* The caching authorizer (qbot/authorizer.rs).                            *)
(***************************************************************************)
Callers == 1..NumCallers
ExpiresInValues == (RefreshMargin - 1)..(RefreshMargin + MaxLifetime)

TokenResponse(at, expiresIn, token) ==
    [at |-> at, expires_in |-> expiresIn, access_token |-> token]
\* Result<String, QBotApiError>
Ok(token) == [ok |-> TRUE, token |-> token]
Err == [ok |-> FALSE, token |-> 0]
NoResult == [ok |-> FALSE, token |-> -1]
NoResponse == [kind |-> "none", at |-> 0, expires_in |-> 0, access_token |-> 0]

\* Instant::duration_since saturates to zero; as_secs gives whole seconds
DurationSince(later, earlier) == IF later >= earlier THEN later - earlier ELSE 0

\* authorizer.rs:92: `expires_in - 60` on u64 overflows below 60
Overflows(expiresIn) == expiresIn < RefreshMargin

\* mutant of the validity test: a margin of one more second
TokenValidWider(elapsed, expiresIn) ==
    IF expiresIn < RefreshMargin + 1 THEN TRUE
    ELSE elapsed < expiresIn - (RefreshMargin + 1)

\* authorizer.rs:92: `elapsed < expires_in - 60` where the subtraction does not
\* panic.  When it wraps, the right side is 2^64 - (60 - expires_in), which
\* exceeds every elapsed time of the model.
TokenValid(elapsed, expiresIn) ==
    IF Overflows(expiresIn) THEN TRUE ELSE elapsed < expiresIn - RefreshMargin

\* mutant of the guard's scope: the guard is dropped before the request
GuardDropped(c) == 0

\* authorizer.rs:84,95: the guard `last_response` lives across the request
GuardHeld(c) == c

\* no call, no lock, no request: the authorizer as the other specifications see it
AuthIdle ==
    /\ clock = 0
    /\ overflowChecks = FALSE
    /\ lastResponse = TokenResponse(0, RefreshMargin + MaxLifetime, 0)
    /\ lockQueue = << >>
    /\ lockHolder = 0
    /\ apc = [c \in Callers |-> "idle"]
    /\ now = [c \in Callers |-> 0]
    /\ ret = [c \in Callers |-> NoResult]
    /\ requests = 0
    /\ mine = [c \in Callers |-> 0]
    /\ respSeen = [c \in Callers |-> 0]
    /\ firstResp = [c \in Callers |-> NoResponse]

\* authorizer.rs:61-77 create_and_authorize: the first token is stored with
\* the time read before it was requested
InitAuth ==
    /\ clock = 0
    /\ overflowChecks \in BOOLEAN
    /\ \E e \in ExpiresInValues : lastResponse = TokenResponse(0, e, 0)
    /\ lockQueue = << >>
    /\ lockHolder = 0
    /\ apc = [c \in Callers |-> "idle"]
    /\ now = [c \in Callers |-> 0]
    /\ ret = [c \in Callers |-> NoResult]
    /\ requests = 0
    /\ mine = [c \in Callers |-> 0]
    /\ respSeen = [c \in Callers |-> 0]
    /\ firstResp = [c \in Callers |-> NoResponse]

InCall(c) == apc[c] \in {"locking", "requesting"}

\* a second passes
Tick ==
    /\ clock < MaxClock
    /\ clock' = clock + 1
    /\ UNCHANGED <<overflowChecks, lastResponse, lockQueue, lockHolder, apc, now, ret,
                   requests, mine, respSeen, firstResp>>
    /\ UNCHANGED <<ctlVars, wsVars, engVars, whVars, restVars>>

\* authorizer.rs:81-84: the call begins, reads the clock and asks for the lock
Call(c) ==
    /\ apc[c] \in {"idle", "returned"}
    /\ apc' = [apc EXCEPT ![c] = "locking"]
    /\ now' = [now EXCEPT ![c] = clock]
    /\ lockQueue' = Append(lockQueue, c)
    /\ ret' = [ret EXCEPT ![c] = NoResult]
    /\ mine' = [mine EXCEPT ![c] = 0]
    /\ respSeen' = [respSeen EXCEPT ![c] = 0]
    /\ firstResp' = [firstResp EXCEPT ![c] = NoResponse]
    /\ UNCHANGED <<clock, overflowChecks, lastResponse, lockHolder, requests>>
    /\ UNCHANGED <<ctlVars, wsVars, engVars, whVars, restVars>>

\* authorizer.rs:84-95: the lock is acquired and the stored token is tested:
\* the call returns it, or sends a token request while it keeps the guard, or
\* panics on the overflow
Acquire(c) ==
    /\ apc[c] = "locking"
    /\ lockHolder = 0
    /\ lockQueue # << >> /\ Head(lockQueue) = c
    /\ lockQueue' = Tail(lockQueue)
    /\ LET elapsed == DurationSince(now[c], lastResponse.at)
           expiresIn == lastResponse.expires_in
       IN IF overflowChecks /\ Overflows(expiresIn)
          THEN /\ apc' = [apc EXCEPT ![c] = "panicked"]
               /\ UNCHANGED <<lockHolder, ret, requests, mine>>
          ELSE IF TokenValid(elapsed, expiresIn)
          THEN /\ apc' = [apc EXCEPT ![c] = "returned"]
               /\ ret' = [ret EXCEPT ![c] = Ok(lastResponse.access_token)]
               /\ UNCHANGED <<lockHolder, requests, mine>>
          ELSE /\ requests < MaxRequests
               /\ apc' = [apc EXCEPT ![c] = "requesting"]
               /\ lockHolder' = GuardHeld(c)
               /\ requests' = requests + 1
               /\ mine' = [mine EXCEPT ![c] = @ + 1]
               /\ UNCHANGED ret
    /\ UNCHANGED <<clock, overflowChecks, lastResponse, now, respSeen, firstResp>>
    /\ UNCHANGED <<ctlVars, wsVars, engVars, whVars, restVars>>

\* the callers in whose call a response arrives take note of it
SeeResponse(r) ==
    /\ respSeen' = [d \in Callers |-> IF InCall(d) THEN Bump(respSeen[d]) ELSE respSeen[d]]
    /\ firstResp' = [d \in Callers |->
                        IF InCall(d) /\ firstResp[d] = NoResponse THEN r ELSE firstResp[d]]

\* authorizer.rs:95: the token request succeeds; the response is stored with
\* the time read before the lock was taken, the guard is dropped and the loop
\* starts over (authorizer.rs:82-84)
RefreshOk(c, expiresIn) ==
    /\ apc[c] = "requesting"
    /\ lastResponse' = TokenResponse(now[c], expiresIn, requests)
    /\ lockHolder' = IF lockHolder = c THEN 0 ELSE lockHolder
    /\ apc' = [apc EXCEPT ![c] = "locking"]
    /\ now' = [now EXCEPT ![c] = clock]
    /\ lockQueue' = Append(lockQueue, c)
    /\ SeeResponse([kind |-> "ok", at |-> now[c], expires_in |-> expiresIn,
                    access_token |-> requests])
    /\ UNCHANGED <<clock, overflowChecks, ret, requests, mine>>
    /\ UNCHANGED <<ctlVars, wsVars, engVars, whVars, restVars>>

\* authorizer.rs:95: the token request fails and `?` returns the error
RefreshErr(c) ==
    /\ apc[c] = "requesting"
    /\ lockHolder' = IF lockHolder = c THEN 0 ELSE lockHolder
    /\ apc' = [apc EXCEPT ![c] = "returned"]
    /\ ret' = [ret EXCEPT ![c] = Err]
    /\ SeeResponse([kind |-> "err", at |-> 0, expires_in |-> 0, access_token |-> 0])
    /\ UNCHANGED <<clock, overflowChecks, lastResponse, lockQueue, now, requests, mine>>
    /\ UNCHANGED <<ctlVars, wsVars, engVars, whVars, restVars>>

NextAuth ==
    \/ Tick
    \/ \E c \in Callers : Call(c)
    \/ \E c \in Callers : Acquire(c)
    \/ \E c \in Callers, e \in ExpiresInValues : RefreshOk(c, e)
    \/ \E c \in Callers : RefreshErr(c)


(***************************************************************************)
(* The WebSocket engines and their auth group (qbot/event/ws.rs,           *)
(* qbot/error.rs, main.rs).                                                *)
(***************************************************************************)
Engines == 1..NumEngines

\* representatives of QBotEventError (error.rs:32-45)
Errors == {"InvalidJson", "ResetWithoutClosingHandshake", "WsOther", "UnexpectedData",
           "AccessTokenApiError", "Code7", "Code9", "Code4009", "Code4914"}
\* further representatives: AccessTokenError(RequestError) and the
\* ReturnCodeError of an unexpected opcode (ws.rs:67, 154), here HeartbeatAck
MoreErrors == {"AccessTokenRequestError", "Code11"}
\* ReturnCodeError(_)
ReturnCodes == {"Code7", "Code9", "Code11", "Code4009", "Code4914"}
\* what a failed connect or send returns (ws.rs:96-98, 200-201): a WsError
\* of the socket; a reset without closing handshake is reported by a read only
SendErrors == {"WsOther"}
NoError == "none"

\* mutant of is_ignoreable: no error is ignoreable
is_ignoreable_never(err) == FALSE

\* error.rs:50-52
is_ignoreable(err) == err = "InvalidJson"
\* mutant of is_resumable: every WsError is resumable
is_resumable_ws(err) == err \in {"Code4009", "ResetWithoutClosingHandshake", "WsOther"}

\* mutant of is_resumable: no error is resumable
is_resumable_never(err) == FALSE

\* error.rs:53-61
is_resumable(err) == err \in {"Code4009", "ResetWithoutClosingHandshake"}
\* error.rs:62-68
is_reidentifiable(err) == is_resumable(err) \/ err \in {"Code7", "Code4009"}
\* mutant of is_invalid_session: no error is an invalid session
is_invalid_session_never(err) == FALSE

\* error.rs:69-71
is_invalid_session(err) == err = "Code9"
\* mutant of is_recoverable: the request to reconnect is not recoverable
is_recoverable_strict(err) ==
    IF err \in ReturnCodes
    THEN is_invalid_session(err)
    ELSE err # "AccessTokenApiError"

\* error.rs:72-80
is_recoverable(err) ==
    IF err \in ReturnCodes
    THEN is_reidentifiable(err) \/ is_invalid_session(err)
    ELSE err # "AccessTokenApiError"

\* mutant of the handshake: the guard is not kept in the handshake's result
GuardLost(e) == 0

\* ws.rs:113-116: the handshake's result owns the guard
GuardKept(e) == e

\* main.rs:229-243: every engine starts run_loop with the one auth group
InitWs ==
    /\ authGroup = 0
    /\ wpc = [e \in Engines |-> "connecting"]
    /\ initial = [e \in Engines |-> TRUE]
    /\ werr = [e \in Engines |-> NoError]
    /\ wresult = [e \in Engines |-> "none"]

\* main.rs:230: try_join stops polling the engines when one has returned Err
Polled == \A e \in Engines : wresult[e] # "err"

\* mutant of the drop: the guard outlives the handshake's result
UnlockedNever(e) == authGroup

\* the guard engine e may hold is dropped
Unlocked(e) == IF authGroup = e THEN 0 ELSE authGroup

\* run_loop returns Err through `?` or `break 'outer`; what it owns is dropped
Fails(e) ==
    /\ wpc' = [wpc EXCEPT ![e] = "stopped"]
    /\ wresult' = [wresult EXCEPT ![e] = "err"]
    /\ authGroup' = Unlocked(e)

\* ws.rs:216, 243: connect_async
Connect(e, ok) ==
    /\ Polled
    /\ wpc[e] = "connecting"
    /\ IF ok
       THEN /\ wpc' = [wpc EXCEPT ![e] = "locking"]
            /\ UNCHANGED <<authGroup, wresult>>
       ELSE Fails(e)
    /\ UNCHANGED <<initial, werr>>
    /\ UNCHANGED <<ctlVars, authVars, engVars, whVars, restVars>>

\* ws.rs:107: the handshake takes the lock of the auth group
Lock(e) ==
    /\ Polled
    /\ wpc[e] = "locking"
    /\ authGroup = 0
    /\ authGroup' = e
    /\ wpc' = [wpc EXCEPT ![e] = "hello"]
    /\ UNCHANGED <<initial, werr, wresult>>
    /\ UNCHANGED <<ctlVars, authVars, engVars, whVars, restVars>>

\* ws.rs:108-116: HELLO is received or not; then ws.rs:217-219 on the initial
\* connect, ws.rs:244-257 on a reconnect
Hello(e, ok) ==
    /\ Polled
    /\ wpc[e] = "hello"
    /\ IF ok
       THEN /\ authGroup' = GuardKept(e)
            /\ wpc' = [wpc EXCEPT ![e] = IF ~initial[e] /\ is_resumable(werr[e])
                                          THEN "resuming" ELSE "authenticating"]
            /\ UNCHANGED wresult
       ELSE Fails(e)
    /\ UNCHANGED <<initial, werr>>
    /\ UNCHANGED <<ctlVars, authVars, engVars, whVars, restVars>>

\* ws.rs:127-143: the sleep, the access token and the sending of IDENTIFY
Identify(e, ok) ==
    /\ Polled
    /\ wpc[e] = "authenticating"
    /\ IF ok
       THEN /\ wpc' = [wpc EXCEPT ![e] = "identified"]
            /\ UNCHANGED <<authGroup, wresult>>
       ELSE Fails(e)
    /\ UNCHANGED <<initial, werr>>
    /\ UNCHANGED <<ctlVars, authVars, engVars, whVars, restVars>>

\* ws.rs:152-170: READY is received or not.  On the initial connect the
\* handshake's result is a temporary of the statement ws.rs:217-220 and is
\* dropped with it; on a reconnect it is the local `handshake` (ws.rs:244),
\* which lives to the end of the loop body.
Ready(e, ok) ==
    /\ Polled
    /\ wpc[e] = "identified"
    /\ IF ok
       THEN /\ wpc' = [wpc EXCEPT ![e] = "heartbeat"]
            /\ authGroup' = IF initial[e] THEN Unlocked(e) ELSE authGroup
            /\ UNCHANGED wresult
       ELSE Fails(e)
    /\ UNCHANGED <<initial, werr>>
    /\ UNCHANGED <<ctlVars, authVars, engVars, whVars, restVars>>

\* ws.rs:226, 258-259: the first heartbeat of the session is sent or not
Heartbeat(e, ok) ==
    /\ Polled
    /\ wpc[e] = "heartbeat"
    /\ IF ok
       THEN /\ wpc' = [wpc EXCEPT ![e] = "running"]
            /\ authGroup' = Unlocked(e)
            /\ UNCHANGED wresult
       ELSE Fails(e)
    /\ werr' = [werr EXCEPT ![e] = NoError]
    /\ initial' = [initial EXCEPT ![e] = FALSE]
    /\ UNCHANGED <<ctlVars, authVars, engVars, whVars, restVars>>

\* ws.rs:228-229, 264-309: run_loop_inner returns Ok on the quit signal
Quit(e) ==
    /\ Polled
    /\ wpc[e] = "running"
    /\ wpc' = [wpc EXCEPT ![e] = "stopped"]
    /\ wresult' = [wresult EXCEPT ![e] = "ok"]
    /\ UNCHANGED <<authGroup, initial, werr>>
    /\ UNCHANGED <<ctlVars, authVars, engVars, whVars, restVars>>

\* ws.rs:228-229, 264-309: run_loop_inner returns an error
RunError(e, err) ==
    /\ Polled
    /\ wpc[e] = "running"
    /\ wpc' = [wpc EXCEPT ![e] = "retry"]
    /\ werr' = [werr EXCEPT ![e] = err]
    /\ UNCHANGED <<authGroup, initial, wresult>>
    /\ UNCHANGED <<ctlVars, authVars, engVars, whVars, restVars>>

\* ws.rs:230-242: the head of the retry loop
Retry(e) ==
    /\ Polled
    /\ wpc[e] = "retry"
    /\ IF is_ignoreable(werr[e])
       THEN /\ wpc' = [wpc EXCEPT ![e] = "running"]
            /\ werr' = [werr EXCEPT ![e] = NoError]
            /\ UNCHANGED <<authGroup, wresult>>
       ELSE IF ~is_recoverable(werr[e])
       THEN /\ Fails(e)
            /\ UNCHANGED werr
       ELSE /\ wpc' = [wpc EXCEPT ![e] = "connecting"]
            /\ UNCHANGED <<authGroup, werr, wresult>>
    /\ UNCHANGED initial
    /\ UNCHANGED <<ctlVars, authVars, engVars, whVars, restVars>>

\* ws.rs:245-254, 194-205: RESUME is sent or not; `handshake` is dropped
Resume(e, err) ==
    /\ Polled
    /\ wpc[e] = "resuming"
    /\ authGroup' = Unlocked(e)
    /\ IF err = NoError
       THEN /\ wpc' = [wpc EXCEPT ![e] = "running"]
            /\ werr' = [werr EXCEPT ![e] = NoError]
       ELSE /\ wpc' = [wpc EXCEPT ![e] = "retry"]
            /\ werr' = [werr EXCEPT ![e] = err]
    /\ UNCHANGED <<initial, wresult>>
    /\ UNCHANGED <<ctlVars, authVars, engVars, whVars, restVars>>

NextWs ==
    \/ \E e \in Engines, ok \in BOOLEAN : Connect(e, ok)
    \/ \E e \in Engines : Lock(e)
    \/ \E e \in Engines, ok \in BOOLEAN : Hello(e, ok)
    \/ \E e \in Engines, ok \in BOOLEAN : Identify(e, ok)
    \/ \E e \in Engines, ok \in BOOLEAN : Ready(e, ok)
    \/ \E e \in Engines, ok \in BOOLEAN : Heartbeat(e, ok)
    \/ \E e \in Engines : Quit(e)
    \/ \E e \in Engines, err \in Errors : RunError(e, err)
    \/ \E e \in Engines : Retry(e)
    \/ \E e \in Engines, err \in SendErrors \cup {NoError} : Resume(e, err)


(***************************************************************************)
(* One WebSocket engine in detail (qbot/event/ws.rs:208-309): the quit     *)
(* signal, the session, the heartbeat timer and the retry loop.  The auth  *)
(* group's lock is free whenever this engine asks for it.                  *)
(***************************************************************************)
\* Option<i32>
SeqSome(s) == [some |-> TRUE, v |-> s]
SeqNone == [some |-> FALSE, v |-> 0]
\* sequence numbers of the envelopes
Seqs == 0..MaxSeq
OptSeqs == {SeqNone} \cup {SeqSome(s) : s \in Seqs}
SessionIds == 1..MaxSession
Tokens == 1..MaxToken
\* heartbeat_interval values HELLO announces
HelloIntervals == {HeartbeatInterval + BackoffSecs}

Session(id, seq, interval, token) ==
    [session_id |-> id, last_seq |-> seq, heartbeat_interval |-> interval, token |-> token]
NoSession == Session(0, -1, 0, 0)
Sent(kind, token, id, seq) == [kind |-> kind, token |-> token, session_id |-> id, seq |-> seq]
NoSent == Sent("none", 0, 0, 0)

\* WsError of a receive
IoErrors == SendErrors \cup {"ResetWithoutClosingHandshake"}
\* what receiving and decoding one message can fail with (ws.rs:78-83, 176-182)
ReceiveErrors == IoErrors \cup {"UnexpectedData", "InvalidJson"}

Max(a, b) == IF a >= b THEN a ELSE b

\* the largest of a set of sequence numbers, -1 for none
SetMax(S) == IF S = {} THEN -1 ELSE CHOOSE s \in S : \A t \in S : t <= s

\* mutant of receive_any: last_seq is the seq of the last envelope
ReceiveAnyLast(sess, q) ==
    IF q.some THEN [sess EXCEPT !.last_seq = q.v] ELSE sess

\* ws.rs:183-185: receive_any records the envelope's seq
ReceiveAny(sess, q) ==
    IF q.some THEN [sess EXCEPT !.last_seq = Max(q.v, sess.last_seq)] ELSE sess

\* main.rs:229-243 and ws.rs:215-216: run_loop starts with the connect
InitEngine ==
    /\ quitRaised = FALSE
    /\ notified = FALSE
    /\ epc = "connect"
    /\ reconnect = FALSE
    /\ eerr = NoError
    /\ eresult = "none"
    /\ hello = 0
    /\ session = NoSession
    /\ fresh = NoSession
    /\ wsClosed = FALSE
    /\ timer = 0
    /\ sinceHb = 0
    /\ slept = 0
    /\ cause = NoError
    /\ closeCode = 0
    /\ interrupted = NoSession
    /\ identifies = 0
    /\ resumes = 0
    /\ sent = NoSent
    /\ seen = {}

\* main.rs:248-254: the first ctrl-c notifies the waiters of the quit signal;
\* a Notified future exists only while the engine waits in the select of
\* run_loop_inner (ws.rs:274), and notify_waiters stores no permit
RaiseQuit ==
    /\ ~quitRaised
    /\ eresult = "none"
    /\ quitRaised' = TRUE
    /\ notified' = (epc = "select")
    /\ UNCHANGED <<epc, reconnect, eerr, eresult, hello, session, fresh, wsClosed, timer,
                   sinceHb, slept, cause, closeCode, interrupted, identifies, resumes,
                   sent, seen>>
    /\ UNCHANGED <<ctlVars, authVars, wsVars, whVars, restVars>>

\* an error that starts the retry loop instead of ending run_loop
ReturnsToRetry(err) ==
    /\ epc' = "retry"
    /\ UNCHANGED eresult

\* ws.rs:216-226, 236-238, 243-258: run_loop returns Err(err), or Ok(())
\* (ws.rs:229)
Returns(err) ==
    /\ epc' = "stopped"
    /\ eresult' = err

\* ws.rs:228, 271-272: run_loop_inner waits in its select with a new Notified
\* future and a new sleep
EnterSelect ==
    /\ epc' = "select"
    /\ timer' = 0
    /\ notified' = FALSE

\* ws.rs:216, 243: connect_async, then `?`
EConnect(r) ==
    /\ epc = "connect"
    /\ IF r = NoError
       THEN /\ epc' = "hello"
            /\ UNCHANGED eresult
       ELSE Returns(r)
    /\ wsClosed' = FALSE
    /\ UNCHANGED <<quitRaised, notified, reconnect, eerr, hello, session, fresh, timer,
                   sinceHb, slept, cause, closeCode, interrupted, identifies, resumes,
                   sent, seen>>
    /\ UNCHANGED <<ctlVars, authVars, wsVars, whVars, restVars>>

\* ws.rs:107-116: the lock and HELLO, then `?` (ws.rs:218, 244); on a
\* reconnect ws.rs:245 chooses between resume and authenticate
EHello(r, interval) ==
    /\ epc = "hello"
    /\ IF r = NoError
       THEN /\ hello' = interval
            /\ epc' = IF reconnect /\ is_resumable(eerr) THEN "resume" ELSE "token"
            /\ UNCHANGED eresult
       ELSE /\ Returns(r)
            /\ UNCHANGED hello
    /\ UNCHANGED <<quitRaised, notified, reconnect, eerr, session, fresh, wsClosed, timer,
                   sinceHb, slept, cause, closeCode, interrupted, identifies, resumes,
                   sent, seen>>
    /\ UNCHANGED <<ctlVars, authVars, wsVars, whVars, restVars>>

\* ws.rs:127-132: the 2-second sleep and get_access_token, then `?`
EToken(r) ==
    /\ epc = "token"
    /\ IF r = NoError
       THEN /\ epc' = "identify"
            /\ UNCHANGED eresult
       ELSE Returns(r)
    /\ UNCHANGED <<quitRaised, notified, reconnect, eerr, hello, session, fresh, wsClosed,
                   timer, sinceHb, slept, cause, closeCode, interrupted, identifies,
                   resumes, sent, seen>>
    /\ UNCHANGED <<ctlVars, authVars, wsVars, whVars, restVars>>

\* ws.rs:133-151: IDENTIFY is sent with the token, then `?`; the new session
\* starts with last_seq = -1 and the announced heartbeat_interval
EIdentify(r, token) ==
    /\ epc = "identify"
    /\ sent' = Sent("IDENTIFY", token, 0, 0)
    /\ identifies' = Bump(identifies)
    /\ IF r = NoError
       THEN /\ epc' = "ready"
            /\ fresh' = Session(0, -1, hello, token)
            /\ UNCHANGED eresult
       ELSE /\ Returns(r)
            /\ UNCHANGED fresh
    /\ UNCHANGED <<quitRaised, notified, reconnect, eerr, hello, session, wsClosed, timer,
                   sinceHb, slept, cause, closeCode, interrupted, resumes, seen>>
    /\ UNCHANGED <<ctlVars, authVars, wsVars, whVars, restVars>>

\* the envelopes that may answer IDENTIFY: their opcode, their event type, and
\* whether their data decodes as ReadyPayload
ReadyReplies == {[op |-> "DISPATCH", type |-> t, ok |-> ok] :
                    t \in {"READY", "RESUMED"}, ok \in BOOLEAN}
                \cup {[op |-> op, type |-> "", ok |-> TRUE] :
                    op \in {"HEARTBEAT_ACK", "INVALID_SESSION", "RECONNECT"}}
NoReply_ == [op |-> "", type |-> "", ok |-> FALSE]

\* no IDENTIFY has been answered
NoReadyYet == readyMsg = NoReply_

\* ws.rs:154: ReturnCodeError(res_metadata.opcode.0 as u32)
OpcodeError(op) ==
    CASE op = "RECONNECT" -> "Code7"
      [] op = "INVALID_SESSION" -> "Code9"
      [] OTHER -> "Code11"

\* mutant of authenticate: any DISPATCH is taken for READY
AuthenticateReplyAnyType(m) ==
    IF m.op # "DISPATCH" THEN OpcodeError(m.op)
    ELSE IF ~m.ok THEN "InvalidJson"
    ELSE NoError

\* ws.rs:152-165: what authenticate makes of the envelope that answers IDENTIFY
AuthenticateReply(m) ==
    IF m.op # "DISPATCH" THEN OpcodeError(m.op)
    ELSE IF m.type # "READY" THEN "UnexpectedData"
    ELSE IF ~m.ok THEN "InvalidJson"
    ELSE NoError

\* ws.rs:152-170: the answer to IDENTIFY is awaited (r: what receive_any
\* fails with), then `?` (ws.rs:220, 257); the session takes READY's
\* session_id and seq and the fixed heartbeat_interval
EReady(r, m, id, q) ==
    /\ epc = "ready"
    /\ readyMsg' = IF r = NoError THEN m ELSE NoReply_
    /\ LET res == IF r = NoError THEN AuthenticateReply(m) ELSE r
       IN  IF res = NoError
           THEN /\ session' = [ReceiveAny(fresh, q) EXCEPT
                                  !.session_id = id,
                                  !.last_seq = IF q.some THEN q.v ELSE -1,
                                  !.heartbeat_interval = HeartbeatInterval]
                /\ seen' = IF q.some THEN {q.v} ELSE {}
                /\ epc' = "first_hb"
                /\ UNCHANGED eresult
           ELSE /\ Returns(res)
                /\ UNCHANGED <<session, seen>>
    /\ UNCHANGED <<quitRaised, notified, reconnect, eerr, hello, fresh, wsClosed, timer,
                   sinceHb, slept, cause, closeCode, interrupted, identifies, resumes, sent>>
    /\ UNCHANGED <<ctlVars, authVars, wsVars, whVars, lowVars>>

\* ws.rs:226, 258-259: the first HEARTBEAT of the session, then `?`; then
\* the outer loop
EFirstHeartbeat(r) ==
    /\ epc = "first_hb"
    /\ sent' = Sent("HEARTBEAT", 0, 0, 0)
    /\ IF r = NoError
       THEN /\ epc' = "outer"
            /\ reconnect' = FALSE
            /\ eerr' = NoError
            /\ UNCHANGED eresult
       ELSE /\ Returns(r)
            /\ UNCHANGED <<reconnect, eerr>>
    /\ sinceHb' = 0
    /\ UNCHANGED <<quitRaised, notified, timer, hello, session, fresh, wsClosed, slept, cause, closeCode,
                   interrupted, identifies, resumes, seen>>
    /\ readyMsg' = NoReply_
    /\ UNCHANGED <<ctlVars, authVars, wsVars, whVars, lowVars>>

\* the controller as the other specifications see it: no command is received
CtlIdle ==
    /\ posts = EmptyMap
    /\ limited = TRUE
    /\ budget = 0
    /\ InitTasks

\* ws.rs:229-230: run_loop_inner has returned Err(err); the retry loop starts
LoopEnds(err, sess) ==
    /\ epc' = "retry"
    /\ reconnect' = TRUE
    /\ eerr' = err
    /\ cause' = err
    /\ interrupted' = sess
    /\ identifies' = 0
    /\ resumes' = 0
    /\ slept' = 0
    /\ sinceHb' = 0

\* the clock advances in thirds of the heartbeat interval
TickSecs == HeartbeatInterval \div 3

\* ws.rs:227-228: the outer loop calls run_loop_inner; what is recorded of the
\* last retry loop is forgotten here (the close code with the closed socket)
ELoop ==
    /\ epc = "outer"
    /\ EnterSelect
    /\ cause' = NoError
    /\ interrupted' = NoSession
    /\ slept' = 0
    /\ identifies' = 0
    /\ resumes' = 0
    /\ sent' = NoSent
    /\ closeCode' = IF wsClosed THEN closeCode ELSE 0
    /\ UNCHANGED <<quitRaised, reconnect, eerr, eresult, hello, session, fresh, wsClosed,
                   sinceHb, seen>>
    /\ UNCHANGED <<ctlVars, authVars, wsVars, whVars, restVars>>

\* time passes while the engine waits in the select
ETick ==
    /\ epc = "select" /\ ~notified
    /\ timer < session.heartbeat_interval
    /\ timer' = timer + TickSecs
    /\ sinceHb' = IF sinceHb <= HeartbeatInterval THEN sinceHb + TickSecs ELSE sinceHb
    /\ UNCHANGED <<quitRaised, notified, epc, reconnect, eerr, eresult, hello, session,
                   fresh, wsClosed, slept, cause, closeCode, interrupted, identifies,
                   resumes, sent, seen>>
    /\ UNCHANGED <<ctlVars, authVars, wsVars, whVars, restVars>>

\* ws.rs:273-276: the select is biased to the quit signal
ESelectQuit ==
    /\ epc = "select" /\ notified
    /\ epc' = "closing"
    /\ UNCHANGED <<quitRaised, notified, reconnect, eerr, eresult, hello, session, fresh,
                   wsClosed, timer, sinceHb, slept, cause, closeCode, interrupted,
                   identifies, resumes, sent, seen>>
    /\ UNCHANGED <<ctlVars, authVars, wsVars, whVars, restVars>>

\* ws.rs:276-277, 229: the close frame is sent and run_loop returns Ok, or the
\* close fails and `?` ends run_loop_inner with the error
EClose(r) ==
    /\ epc = "closing"
    /\ sent' = Sent("CLOSE", 0, 0, 0)
    /\ IF r = NoError
       THEN /\ Returns("ok")
            /\ UNCHANGED <<reconnect, eerr, cause, interrupted, identifies, resumes, slept,
                           sinceHb>>
       ELSE /\ LoopEnds(r, session)
            /\ UNCHANGED eresult
    /\ UNCHANGED <<quitRaised, notified, hello, session, fresh, wsClosed, timer, closeCode,
                   seen>>
    /\ UNCHANGED <<ctlVars, authVars, wsVars, whVars, restVars>>

\* ws.rs:279: the sleep of the select has run heartbeat_interval seconds
ETimer ==
    /\ epc = "select" /\ ~notified
    /\ timer >= session.heartbeat_interval
    /\ epc' = "timer_hb"
    /\ UNCHANGED <<quitRaised, notified, reconnect, eerr, eresult, hello, session, fresh,
                   wsClosed, timer, sinceHb, slept, cause, closeCode, interrupted,
                   identifies, resumes, sent, seen>>
    /\ UNCHANGED <<ctlVars, authVars, wsVars, whVars, restVars>>

\* ws.rs:280-281, 289-290: HEARTBEAT is sent, then `?` or the next iteration
SendHeartbeat(r) ==
    /\ sent' = Sent("HEARTBEAT", 0, 0, 0)
    /\ IF r = NoError
       THEN /\ EnterSelect
            /\ sinceHb' = 0
            /\ UNCHANGED <<reconnect, eerr, cause, interrupted, identifies, resumes, slept>>
       ELSE /\ LoopEnds(r, session)
            /\ UNCHANGED <<timer, notified>>
    /\ UNCHANGED <<quitRaised, eresult, hello, session, fresh, wsClosed, closeCode, seen>>
    /\ UNCHANGED <<ctlVars, authVars, wsVars, whVars, restVars>>

\* ws.rs:280: the HEARTBEAT of the timer
ETimerHeartbeat(r) == epc = "timer_hb" /\ SendHeartbeat(r)

\* ws.rs:289: the HEARTBEAT that answers OP_HEARTBEAT
EReplyHeartbeat(r) == epc = "reply_hb" /\ SendHeartbeat(r)

\* the select takes the message branch: no quit signal, the sleep not due
CanReceive ==
    /\ epc = "select" /\ ~notified
    /\ timer < session.heartbeat_interval

\* envelopes of the receive loop: by opcode, DISPATCH with data that decodes or not
Inbound == {"DISPATCH", "DISPATCH_BAD", "HEARTBEAT", "RECONNECT", "INVALID_SESSION",
            "ACK", "UNKNOWN"}

\* ws.rs:283-307: an envelope is received; receive_any records its seq, then
\* the opcode decides
EReceive(m, q) ==
    /\ CanReceive /\ ~wsClosed
    /\ session' = ReceiveAny(session, q)
    /\ seen' = IF q.some THEN seen \cup {q.v} ELSE seen
    /\ IF m \in {"DISPATCH", "ACK", "UNKNOWN"}
       THEN /\ EnterSelect
            /\ UNCHANGED <<reconnect, eerr, cause, interrupted, identifies, resumes, slept,
                           sinceHb>>
       ELSE IF m = "HEARTBEAT"
       THEN /\ epc' = "reply_hb"
            /\ UNCHANGED <<timer, notified, reconnect, eerr, cause, interrupted, identifies,
                           resumes, slept, sinceHb>>
       ELSE /\ LoopEnds(CASE m = "RECONNECT" -> "Code7"
                          [] m = "INVALID_SESSION" -> "Code9"
                          [] OTHER -> "InvalidJson", session')
            /\ UNCHANGED <<timer, notified>>
    /\ UNCHANGED <<quitRaised, eresult, hello, fresh, wsClosed, closeCode, sent>>
    /\ UNCHANGED <<ctlVars, authVars, wsVars, whVars, restVars>>

\* ws.rs:176-182: the socket fails, ends, or delivers what is no envelope
EReceiveError(r) ==
    /\ CanReceive
    /\ wsClosed => r = "UnexpectedData"
    /\ LoopEnds(r, session)
    /\ UNCHANGED <<quitRaised, notified, eresult, hello, session, fresh, wsClosed, timer,
                   closeCode, sent, seen>>
    /\ UNCHANGED <<ctlVars, authVars, wsVars, whVars, restVars>>

\* close codes the server ends the connection with
CloseCodes == {4007, 4009, 4900}

\* ws.rs:176-182: the server's close frame arrives as a message; its data is
\* the close reason, which is no envelope; the stream ends after it
EReceiveClose(code) ==
    /\ CanReceive /\ ~wsClosed
    /\ wsClosed' = TRUE
    /\ closeCode' = code
    /\ LoopEnds("InvalidJson", session)
    /\ UNCHANGED <<quitRaised, notified, eresult, hello, session, fresh, timer, sent, seen>>
    /\ UNCHANGED <<ctlVars, authVars, wsVars, whVars, restVars>>

\* ws.rs:230-242: the head of the retry loop
ERetry ==
    /\ epc = "retry"
    /\ IF is_ignoreable(eerr)
       THEN /\ epc' = "outer"
            /\ reconnect' = FALSE
            /\ eerr' = NoError
            /\ UNCHANGED eresult
       ELSE IF ~is_recoverable(eerr)
       THEN /\ Returns(eerr)
            /\ UNCHANGED <<reconnect, eerr>>
       ELSE /\ epc' = IF is_invalid_session(eerr) THEN "connect" ELSE "backoff"
            /\ UNCHANGED <<reconnect, eerr, eresult>>
    /\ UNCHANGED <<quitRaised, notified, timer, hello, session, fresh, wsClosed, sinceHb, slept, cause,
                   closeCode, interrupted, identifies, resumes, sent, seen>>
    /\ UNCHANGED <<ctlVars, authVars, wsVars, whVars, restVars>>

\* ws.rs:240: the back-off sleep
EBackoff ==
    /\ epc = "backoff"
    /\ slept' = BackoffSecs
    /\ epc' = "connect"
    /\ UNCHANGED <<quitRaised, notified, reconnect, eerr, eresult, hello, session, fresh,
                   wsClosed, timer, sinceHb, cause, closeCode, interrupted, identifies,
                   resumes, sent, seen>>
    /\ UNCHANGED <<ctlVars, authVars, wsVars, whVars, restVars>>

\* ws.rs:194-205, 247-254: RESUME is sent with the session's token,
\* session_id and last_seq; the session goes on with the new socket, or the
\* retry loop starts over with the error of the send
EResume(r) ==
    /\ epc = "resume"
    /\ sent' = Sent("RESUME", session.token, session.session_id, session.last_seq)
    /\ resumes' = Bump(resumes)
    /\ IF r = NoError
       THEN /\ epc' = "outer"
            /\ reconnect' = FALSE
            /\ eerr' = NoError
            /\ UNCHANGED slept
       ELSE /\ epc' = "retry"
            /\ eerr' = r
            /\ slept' = 0
            /\ UNCHANGED reconnect
    /\ UNCHANGED <<quitRaised, notified, timer, eresult, hello, session, fresh, wsClosed, sinceHb, cause,
                   closeCode, interrupted, identifies, seen>>
    /\ UNCHANGED <<ctlVars, authVars, wsVars, whVars, restVars>>

NextEngine ==
    \/ RaiseQuit
    \/ \E r \in SendErrors \cup {NoError} : EConnect(r)
    \/ \E r \in ReceiveErrors \cup {"Code11", NoError}, i \in HelloIntervals : EHello(r, i)
    \/ \E r \in {"AccessTokenApiError", "AccessTokenRequestError", NoError} : EToken(r)
    \/ \E r \in SendErrors \cup {NoError}, token \in Tokens : EIdentify(r, token)
    \/ \E r \in ReceiveErrors \cup {NoError}, m \in ReadyReplies, id \in SessionIds, q \in OptSeqs :
          EReady(r, m, id, q)
    \/ \E r \in SendErrors \cup {NoError} : EFirstHeartbeat(r)
    \/ ELoop
    \/ ETick
    \/ ESelectQuit
    \/ \E r \in SendErrors \cup {NoError} : EClose(r)
    \/ ETimer
    \/ \E r \in SendErrors \cup {NoError} : ETimerHeartbeat(r)
    \/ \E r \in SendErrors \cup {NoError} : EReplyHeartbeat(r)
    \/ \E m \in Inbound, q \in OptSeqs : EReceive(m, q)
    \/ \E r \in IoErrors \cup {"UnexpectedData", "InvalidJson"} : EReceiveError(r)
    \/ \E code \in CloseCodes : EReceiveClose(code)
    \/ ERetry
    \/ EBackoff
    \/ \E r \in SendErrors \cup {NoError} : EResume(r)

\* connections that arrive at the listener
MaxConns == 2
\* webhook.rs:63: the timeout of the graceful shutdown, in seconds
ShutdownTimeout == 10

\* main.rs:75-79: the transport's run starts with the bind
InitWebhook ==
    /\ whQuit = FALSE
    /\ whNotified = FALSE
    /\ whpc = "bind"
    /\ backlog = 0
    /\ arrived = 0
    /\ inflight = 0
    /\ waited = 0
    /\ whResult = "none"
    /\ lateAccepts = FALSE

\* the transport's run returns
WhReturns(res) ==
    /\ whpc' = "stopped"
    /\ whResult' = res

\* webhook.rs:40-59, main.rs:76-79: the listener is bound, or `?`
WhBind(ok) ==
    /\ whpc = "bind"
    /\ IF ok
       THEN /\ whpc' = "select"
            /\ UNCHANGED whResult
       ELSE WhReturns("WebhookServeError")
    /\ UNCHANGED <<whQuit, whNotified, backlog, arrived, inflight, waited, lateAccepts>>
    /\ UNCHANGED <<ctlVars, authVars, wsVars, engVars, restVars>>

\* main.rs:248-254: the first ctrl-c notifies the waiters of the quit signal;
\* a Notified future exists only while serve waits in its select
\* (webhook.rs:82-89), and notify_waiters stores no permit
WhRaiseQuit ==
    /\ ~whQuit
    /\ whResult = "none"
    /\ whQuit' = TRUE
    /\ whNotified' = (whpc = "select")
    /\ UNCHANGED <<whpc, backlog, arrived, inflight, waited, whResult, lateAccepts>>
    /\ UNCHANGED <<ctlVars, authVars, wsVars, engVars, restVars>>

\* a client connects to the bound listener
WhArrive ==
    /\ whpc = "select"
    /\ arrived < MaxConns
    /\ arrived' = arrived + 1
    /\ backlog' = backlog + 1
    /\ UNCHANGED <<whQuit, whNotified, whpc, inflight, waited, whResult, lateAccepts>>
    /\ UNCHANGED <<ctlVars, authVars, wsVars, engVars, restVars>>

\* webhook.rs:82-105: the select is biased to accept(); the connection is
\* spawned under the graceful watcher, and the next iteration waits with a
\* new Notified future
WhAccept ==
    /\ whpc = "select"
    /\ backlog > 0
    /\ backlog' = backlog - 1
    /\ inflight' = inflight + 1
    /\ whNotified' = FALSE
    /\ lateAccepts' = (lateAccepts \/ whQuit)
    /\ UNCHANGED <<whQuit, whpc, arrived, waited, whResult>>
    /\ UNCHANGED <<ctlVars, authVars, wsVars, engVars, restVars>>

\* webhook.rs:85, 90, main.rs:80-83: accept() fails, then `?`
WhAcceptError ==
    /\ whpc = "select"
    /\ WhReturns("WebhookServeError")
    /\ UNCHANGED <<whQuit, whNotified, backlog, arrived, inflight, waited, lateAccepts>>
    /\ UNCHANGED <<ctlVars, authVars, wsVars, engVars, restVars>>

\* webhook.rs:86-88, 61-63: no connection is ready and the signal is seen;
\* serve returns Ok and shutdown() starts its timeout
WhQuit ==
    /\ whpc = "select"
    /\ backlog = 0
    /\ whNotified
    /\ whpc' = "shutdown"
    /\ waited' = 0
    /\ UNCHANGED <<whQuit, whNotified, backlog, arrived, inflight, whResult, lateAccepts>>
    /\ UNCHANGED <<ctlVars, authVars, wsVars, engVars, restVars>>

\* webhook.rs:101-105: a spawned connection finishes
WhConnDone ==
    /\ inflight > 0
    /\ whpc # "stopped"
    /\ inflight' = inflight - 1
    /\ UNCHANGED <<whQuit, whNotified, whpc, backlog, arrived, waited, whResult,
                   lateAccepts>>
    /\ UNCHANGED <<ctlVars, authVars, wsVars, engVars, restVars>>

\* webhook.rs:63: a second of the timeout passes
WhTick ==
    /\ whpc = "shutdown"
    /\ inflight > 0
    /\ waited < ShutdownTimeout
    /\ waited' = waited + 1
    /\ UNCHANGED <<whQuit, whNotified, whpc, backlog, arrived, inflight, whResult,
                   lateAccepts>>
    /\ UNCHANGED <<ctlVars, authVars, wsVars, engVars, restVars>>

\* webhook.rs:63-67, main.rs:84-85: the connections have finished, or the
\* timeout has elapsed; either way run returns Ok
WhShutdown ==
    /\ whpc = "shutdown"
    /\ inflight = 0 \/ waited >= ShutdownTimeout
    /\ WhReturns("ok")
    /\ UNCHANGED <<whQuit, whNotified, backlog, arrived, inflight, waited, lateAccepts>>
    /\ UNCHANGED <<ctlVars, authVars, wsVars, engVars, restVars>>

NextWebhook ==
    \/ \E ok \in BOOLEAN : WhBind(ok)
    \/ WhRaiseQuit
    \/ WhArrive
    \/ WhAccept
    \/ WhAcceptError
    \/ WhQuit
    \/ WhConnDone
    \/ WhTick
    \/ WhShutdown

\* events a session receives
MaxEvents == 2

\* event.rs:38-66: the event types handle_dispatch_event tells apart
EventTypes == {"AT_MESSAGE_CREATE", "DIRECT_MESSAGE_CREATE", "RESUMED",
               "PUBLIC_MESSAGE_DELETE", "READY", "OTHER"}

\* ws.rs:285-306: the opcodes run_loop_inner tells apart
OtherOps == {"HEARTBEAT", "RECONNECT", "INVALID_SESSION", "HEARTBEAT_ACK",
             "HTTP_CALLBACK_ACK", "UNKNOWN_OP"}

\* an envelope: its opcode, its event type, and whether its data decodes as the
\* payload of that type
Event(op, type, ok) == [op |-> op, type |-> type, ok |-> ok]
Events == {Event("DISPATCH", t, ok) : t \in EventTypes, ok \in BOOLEAN}
              \cup {Event(op, "", TRUE) : op \in OtherOps}

\* mutant of handle_dispatch_event: direct messages are forwarded as well
HandleDispatchEventDirect(type, ok) ==
    IF type \in {"AT_MESSAGE_CREATE", "DIRECT_MESSAGE_CREATE"}
    THEN IF ok THEN "invoke" ELSE "error"
    ELSE "skip"

\* event.rs:33-68: handle_dispatch_event calls the handler, does nothing, or
\* fails with InvalidJson
HandleDispatchEvent(type, ok) ==
    CASE type = "AT_MESSAGE_CREATE" -> IF ok THEN "invoke" ELSE "error"
      [] type = "DIRECT_MESSAGE_CREATE" -> IF ok THEN "skip" ELSE "error"
      [] OTHER -> "skip"

\* mutant of EventHandler::handle_at_message: the handler's future is awaited
HandlerAwaited(tasks) == \E n \in DOMAIN tasks : tasks[n] \in {"running", "blocked"}

\* handler.rs:89-92: the command runs in a task of its own (tokio::spawn);
\* handle_at_message returns at once
HandlerBlocks(tasks) == FALSE

InitDispatch ==
    /\ dloop = "receiving"
    /\ received = <<>>
    /\ handed = <<>>
    /\ htask = [n \in 1..MaxEvents |-> "none"]
    /\ hbReplies = 0

\* mutant of the opcode match: an acknowledgement is answered as well
FramesForAcked(op) == IF op \in {"HEARTBEAT", "HEARTBEAT_ACK"} THEN 1 ELSE 0

\* ws.rs:285-306: the frames run_loop_inner sends for an envelope of the
\* opcode: one HEARTBEAT for OP_HEARTBEAT, none for any other
FramesFor(op) == IF op = "HEARTBEAT" THEN 1 ELSE 0

\* ws.rs:283-307: one envelope is received and dispatched by its opcode; the
\* loop ends when the dispatch or the send of the answer fails
DReceive(ev, sendOk) ==
    /\ dloop = "receiving"
    /\ ~HandlerBlocks(htask)
    /\ Len(received) < MaxEvents
    /\ received' = Append(received, ev)
    /\ LET n == Len(received) + 1
           does == IF ev.op = "DISPATCH" THEN HandleDispatchEvent(ev.type, ev.ok)
                   ELSE "skip"
       IN  /\ handed' = IF does = "invoke" THEN Append(handed, n) ELSE handed
           /\ htask' = IF does = "invoke" THEN [htask EXCEPT ![n] = "running"] ELSE htask
           /\ dloop' = IF \/ does = "error"
                          \/ ev.op \in {"RECONNECT", "INVALID_SESSION"}
                          \/ FramesFor(ev.op) > 0 /\ ~sendOk
                       THEN "ended" ELSE "receiving"
    /\ hbReplies' = hbReplies + FramesFor(ev.op)
    /\ UNCHANGED <<upperVars, hVars, svVars, sanVars, ehVars>>

\* ws.rs:230-260: the retry loop ignores the error, resumes or re-identifies,
\* and run_loop_inner is called again
DReenter ==
    /\ dloop = "ended"
    /\ dloop' = "receiving"
    /\ UNCHANGED <<received, handed, htask, hbReplies>>
    /\ UNCHANGED <<upperVars, hVars, svVars, sanVars, ehVars>>

\* handler.rs:53-71: the command's task waits for an outbound call
HBlock(n) ==
    /\ htask[n] = "running"
    /\ htask' = [htask EXCEPT ![n] = "blocked"]
    /\ UNCHANGED <<dloop, received, handed, hbReplies>>
    /\ UNCHANGED <<upperVars, hVars, svVars, sanVars, ehVars>>

\* handler.rs:39-75: the command's task ends: it returns, or it fails
HFinish(n, ok) ==
    /\ htask[n] \in {"running", "blocked"}
    /\ htask' = [htask EXCEPT ![n] = IF ok THEN "done" ELSE "failed"]
    /\ UNCHANGED <<dloop, received, handed, hbReplies>>
    /\ UNCHANGED <<upperVars, hVars, svVars, sanVars, ehVars>>

NextDispatch ==
    \/ \E ev \in Events, sendOk \in BOOLEAN : DReceive(ev, sendOk)
    \/ DReenter
    \/ \E n \in 1..MaxEvents : HBlock(n)
    \/ \E n \in 1..MaxEvents, ok \in BOOLEAN : HFinish(n, ok)

\* characters of a reply beyond its first
MaxReplyLen == 2

\* the characters of a reply: the ASCII full stop, the full-width full stop
\* (written FW) and any other character
Chars == {".", "FW", "x"}

\* the strings a controller operation can return
Texts == UNION {[1..n -> Chars] : n \in 0..MaxReplyLen}

\* handler.rs:59, 64, 66: the dispatcher's own replies
TxtBadDate == <<"d">>
TxtHelp == <<"h">>
TxtUnsupported == <<"u">>

\* mutant of the reply call: the content is sent as computed
ReplaceDotsNot(text) == text

\* api.rs:91: content.replace(".", "。")
ReplaceDots(text) == [i \in 1..Len(text) |-> IF text[i] = "." THEN "FW" ELSE text[i]]

\* handler.rs:40: the whitelisted author id, and another one
Whitelist == {"1453422017104534300"}
Authors == Whitelist \cup {"1453422017104534301"}

\* mutant of the whitelist check: every author passes
WhitelistedAll(author) == TRUE

\* handler.rs:41
Whitelisted(author) == author \in Whitelist

\* handler.rs:52-67: what the filtered content is
Commands == {"scrape", "publish", "publish_bad_date", "channels", "help", "unsupported"}

\* controller.rs:26: the configured news channel, and the channels at-messages
\* come from
NewsChannel == "news"
Channels == {NewsChannel, "lobby"}

\* mutant of 发送: the thread goes to the channel of the command
PostChannelOfCaller(channel_id) == channel_id

\* 发送.rs:77-78: post_channel_id, whatever _channel_id is
PostChannel(channel_id) == NewsChannel

MsgIds == 1..2
Messages ==
    [author : Authors, cmd : Commands, channel_id : Channels, id : MsgIds]

\* an outbound call: the crawler's fetch, list_channels,
\* send_channel_thread_html or reply_text_to_channel_message
ApiCall(api, channel_id, msg_id, content) ==
    [api |-> api, channel_id |-> channel_id, msg_id |-> msg_id, content |-> content]

\* how an outbound API call ends: Ok, Err, or the panic of
\* with_access_token when the Authorizer fails (api.rs:64)
ApiOutcomes == {"ok", "err", "panic"}

\* handler.rs:39: the task starts with an at-message
InitHandler ==
    /\ hmsg \in Messages
    /\ mpc = "start"
    /\ ops = <<>>
    /\ calls = <<>>
    /\ replyMsg = <<>>

\* handler.rs:40-67: the whitelist check, and the command is recognised; the
\* dispatcher's own replies are computed at once
HCheck ==
    /\ mpc = "start"
    /\ IF ~Whitelisted(hmsg.author)
       THEN /\ mpc' = "done"
            /\ UNCHANGED <<ops, replyMsg>>
       ELSE IF hmsg.cmd \in {"scrape", "publish", "channels"}
       THEN /\ mpc' = hmsg.cmd
            /\ ops' = Append(ops, hmsg.cmd)
            /\ UNCHANGED replyMsg
       ELSE /\ mpc' = "reply"
            /\ replyMsg' = CASE hmsg.cmd = "publish_bad_date" -> TxtBadDate
                             [] hmsg.cmd = "help" -> TxtHelp
                             [] OTHER -> TxtUnsupported
            /\ UNCHANGED ops
    /\ UNCHANGED <<hmsg, calls>>
    /\ UNCHANGED <<upperVars, dVars, svVars, sanVars, ehVars>>

\* handler.rs:53: controller.爬取 fetches from the crawler (or rejects the
\* link) and returns its reply
HScrape(fetches, text) ==
    /\ mpc = "scrape"
    /\ calls' = IF fetches THEN Append(calls, ApiCall("fetch_post", "", 0, <<>>)) ELSE calls
    /\ replyMsg' = text
    /\ mpc' = "reply"
    /\ UNCHANGED <<hmsg, ops>>
    /\ UNCHANGED <<upperVars, dVars, svVars, sanVars, ehVars>>

\* handler.rs:57, 发送.rs:77-114: controller.发送 finds no article, or
\* publishes the thread and returns its reply
HPublish(found, ended, text) ==
    /\ mpc = "publish"
    /\ calls' = IF found
                THEN Append(calls, ApiCall("send_channel_thread_html",
                                           PostChannel(hmsg.channel_id), 0, <<>>))
                ELSE calls
    /\ IF found /\ ended = "panic"
       THEN /\ mpc' = "panicked"
            /\ UNCHANGED replyMsg
       ELSE /\ mpc' = "reply"
            /\ replyMsg' = text
    /\ UNCHANGED <<hmsg, ops>>
    /\ UNCHANGED <<upperVars, dVars, svVars, sanVars, ehVars>>

\* handler.rs:62, 所有频道.rs:11-24: controller.所有频道 lists the channels
HChannels(ended, text) ==
    /\ mpc = "channels"
    /\ calls' = Append(calls, ApiCall("list_channels", "", 0, <<>>))
    /\ IF ended = "panic"
       THEN /\ mpc' = "panicked"
            /\ UNCHANGED replyMsg
       ELSE /\ mpc' = "reply"
            /\ replyMsg' = text
    /\ UNCHANGED <<hmsg, ops>>
    /\ UNCHANGED <<upperVars, dVars, svVars, sanVars, ehVars>>

\* handler.rs:68-74, api.rs:70-98: the reply is sent with the message's id
\* and channel; an Err is logged
HReply(ended) ==
    /\ mpc = "reply"
    /\ calls' = Append(calls, ApiCall("reply_text_to_channel_message", hmsg.channel_id,
                                      hmsg.id, ReplaceDots(replyMsg)))
    /\ mpc' = IF ended = "panic" THEN "panicked" ELSE "done"
    /\ UNCHANGED <<hmsg, ops, replyMsg>>
    /\ UNCHANGED <<upperVars, dVars, svVars, sanVars, ehVars>>

NextHandler ==
    \/ HCheck
    \/ \E fetches \in BOOLEAN, text \in Texts : HScrape(fetches, text)
    \/ \E found \in BOOLEAN, ended \in ApiOutcomes, text \in Texts :
          HPublish(found, ended, text)
    \/ \E ended \in ApiOutcomes, text \in Texts : HChannels(ended, text)
    \/ \E ended \in ApiOutcomes : HReply(ended)

\* no at-message is being handled
HandlerIdle ==
    /\ hmsg = [author |-> "", cmd |-> "", channel_id |-> "", id |-> 0]
    /\ mpc = "done"
    /\ ops = <<>>
    /\ calls = <<>>
    /\ replyMsg = <<>>

\* ---------------------------------------------------------------------------
\* The webhook service: QBotWebhookService::call, one request at a time
\* ---------------------------------------------------------------------------

\* service.rs:80: the largest declared body length that is served (1024 * 64)
BodyLimit == 65536

\* service.rs:79: Body::size_hint().upper(): <<n>> for a declared
\* content-length of n bytes, <<>> for a body of undeclared length
Declared == {<<>>} \cup {<<n>> : n \in {0, 1, BodyLimit - 1, BodyLimit, BodyLimit + 1,
                                         2 * BodyLimit}}

\* opcode.rs:10-19: the opcodes a webhook body may carry
ServiceOps == {"DISPATCH", "HTTP_CALLBACK_CHALLENGE"} \cup OtherOps

\* payload.rs:128-131: the plain_token and event_ts of a challenge
PlainTokens == {"tokA", "tokB"}
EventTs == {"1725442341"}

\* a request body: not JSON at all (or JSON without an opcode), or an envelope
\* with its opcode, its event type, whether its data decodes as the payload
\* the opcode and type ask for, and the challenge fields the data carries
Bodies ==
    {[json |-> FALSE, op |-> "", type |-> "", ok |-> FALSE, plain_token |-> "",
      event_ts |-> ""]}
    \cup {[json |-> TRUE, op |-> "DISPATCH", type |-> t, ok |-> ok, plain_token |-> "",
           event_ts |-> ""] : t \in EventTypes \cup {""}, ok \in BOOLEAN}
    \cup {[json |-> TRUE, op |-> "HTTP_CALLBACK_CHALLENGE", type |-> "", ok |-> TRUE,
           plain_token |-> p, event_ts |-> ts] : p \in PlainTokens, ts \in EventTs}
    \cup {[json |-> TRUE, op |-> "HTTP_CALLBACK_CHALLENGE", type |-> "", ok |-> FALSE,
           plain_token |-> "", event_ts |-> ""]}
    \cup {[json |-> TRUE, op |-> op, type |-> "", ok |-> ok, plain_token |-> "",
           event_ts |-> ""] : op \in ServiceOps \ {"DISPATCH", "HTTP_CALLBACK_CHALLENGE"},
                              ok \in BOOLEAN}

Requests == [declared : Declared, body : Bodies]

NoRequest == [declared |-> <<>>, body |-> [json |-> FALSE, op |-> "", type |-> "",
                                           ok |-> FALSE, plain_token |-> "",
                                           event_ts |-> ""]]

\* mutant of the size check: a body of exactly the limit is rejected
TooLargeFromLimit(declared) == declared = <<>> \/ declared[1] >= BodyLimit

\* service.rs:79-80: upper = size_hint().upper().unwrap_or(u64::MAX), and
\* upper > 1024 * 64; u64::MAX is above the limit
TooLarge(declared) == declared = <<>> \/ declared[1] > BodyLimit

\* challenge.rs:17-23: the hex-encoded ed25519 signature of the material
CalculateChallengeResponse(material) == <<"sig", material>>

\* the JSON documents the service answers with
JsonEmpty == [json |-> "object", error |-> "", plain_token |-> "", signature |-> <<>>]
JsonError(text) == [json |-> "object", error |-> text, plain_token |-> "", signature |-> <<>>]
JsonChallenge(token, sig) ==
    [json |-> "object", error |-> "", plain_token |-> token, signature |-> sig]

\* QBotEventResult<Bytes>: Ok(body), Err(UnexpectedData(text)), Err(InvalidJson)
ResOk(body, does) == [kind |-> "Ok", body |-> body, text |-> "", does |-> does]
ResUnexpected(text) == [kind |-> "UnexpectedData", body |-> JsonEmpty, text |-> text,
                        does |-> "skip"]
ResInvalidJson(does) == [kind |-> "InvalidJson", body |-> JsonEmpty, text |-> "",
                         does |-> does]

\* mutant of handle_request_body: an unknown opcode is acknowledged
HandleRequestBodyLax(body) ==
    IF ~body.json THEN ResInvalidJson("skip")
    ELSE CASE body.op = "DISPATCH" ->
                  LET does == HandleDispatchEvent(body.type, body.ok)
                  IN  IF does = "error" THEN ResInvalidJson("skip") ELSE ResOk(JsonEmpty, does)
           [] body.op = "HTTP_CALLBACK_CHALLENGE" ->
                  IF body.ok
                  THEN ResOk(JsonChallenge(body.plain_token,
                             CalculateChallengeResponse(<<body.event_ts, body.plain_token>>)),
                             "skip")
                  ELSE ResInvalidJson("skip")
           [] OTHER -> ResOk(JsonEmpty, "skip")

\* service.rs:30-63: handle_request_body; `does` tells whether the dispatch
\* routine invoked the handler
HandleRequestBody(body) ==
    IF ~body.json THEN ResInvalidJson("skip")
    ELSE CASE body.op = "DISPATCH" ->
                  LET does == HandleDispatchEvent(body.type, body.ok)
                  IN  IF does = "error" THEN ResInvalidJson("skip") ELSE ResOk(JsonEmpty, does)
           [] body.op = "HTTP_CALLBACK_CHALLENGE" ->
                  IF body.ok
                  THEN ResOk(JsonChallenge(body.plain_token,
                             CalculateChallengeResponse(<<body.event_ts, body.plain_token>>)),
                             "skip")
                  ELSE ResInvalidJson("skip")
           [] OTHER -> ResUnexpected("Unknown opcode")

ContentTypeJson == "application/json; charset=utf-8"

\* a response: its status, its body, its content-type header ("" when not set)
Response(status, body, ctype) == [status |-> status, body |-> body, ctype |-> ctype]
NotAnswered == Response(0, JsonEmpty, "")

\* service.rs:82-91: the answer to an oversized request, returned at once
TooLargeResponse == Response(413, JsonError("Request body too large"), "")

\* service.rs:95-124: the response built from handle_request_body's result,
\* with the content-type header inserted
Respond(res) ==
    CASE res.kind = "Ok" -> Response(200, res.body, ContentTypeJson)
      [] res.kind = "UnexpectedData" -> Response(400, JsonError(res.text), ContentTypeJson)
      [] OTHER -> Response(500, JsonError("Internal server error"), ContentTypeJson)

\* no request is being served
ServiceIdle ==
    /\ sreq = NoRequest
    /\ spc = "idle"
    /\ bodyRead = FALSE
    /\ svHanded = 0
    /\ resp = NotAnswered

\* service.rs:65-92: call is given a request; it answers an oversized one at
\* once, and awaits the body of any other
SvCall(r) ==
    /\ spc \in {"idle", "responded", "failed"}
    /\ sreq' = r
    /\ bodyRead' = FALSE
    /\ svHanded' = 0
    /\ IF TooLarge(r.declared)
       THEN /\ resp' = TooLargeResponse
            /\ spc' = "responded"
       ELSE /\ resp' = NotAnswered
            /\ spc' = "collect"
    /\ UNCHANGED <<upperVars, dVars, hVars, sanVars, ehVars>>

\* service.rs:93-124: the body has arrived: it is handled and answered
SvCollected ==
    /\ spc = "collect"
    /\ bodyRead' = TRUE
    /\ LET res == HandleRequestBody(sreq.body)
       IN  /\ svHanded' = IF res.does = "invoke" THEN svHanded + 1 ELSE svHanded
           /\ resp' = Respond(res)
    /\ spc' = "responded"
    /\ UNCHANGED sreq
    /\ UNCHANGED <<upperVars, dVars, hVars, sanVars, ehVars>>

\* service.rs:93: reading the body fails (hyper::Error): call returns Err and
\* no response is produced
SvCollectError ==
    /\ spc = "collect"
    /\ bodyRead' = TRUE
    /\ spc' = "failed"
    /\ UNCHANGED <<sreq, svHanded, resp>>
    /\ UNCHANGED <<upperVars, dVars, hVars, sanVars, ehVars>>

NextService ==
    \/ \E r \in Requests : SvCall(r)
    \/ SvCollected
    \/ SvCollectError


\* ---------------------------------------------------------------------------
\* The HTML sanitizer: process_html (parse, walk, serialize)
\* ---------------------------------------------------------------------------

\* nesting of elements in the articles given to the sanitizer
MaxDepth == 1

\* children per element, and top-level nodes per article
MaxKids == 2

\* 发送.rs:47, 51: the replacement texts
TxtImage == "(image placeholder)"       \* "（此处应有图片，请前往原文链接查看）"
TxtCode == "(code placeholder)"         \* "（此处应有代码块，请前往原文链接查看）"

\* markup5ever_rcdom Node: an element with its attribute names and children,
\* or a text node with its contents
Element(tag, attrs, kids) == [tag |-> tag, attrs |-> attrs, kids |-> kids, text |-> <<>>]
Text(contents) == [tag |-> "#text", attrs |-> {}, kids |-> <<>>, text |-> contents]

\* 发送.rs:26-41: replace_with_div_text
ReplaceWithDivText(replace_text) == Element("div", {}, <<Text(<<replace_text>>)>>)

RECURSIVE ProcessElement(_)
\* 发送.rs:42-62: process_elements, for one child: the element is replaced or
\* loses its rel attribute, then the children of what stands there are walked
ProcessElement(node) ==
    LET child == CASE node.tag = "img" -> ReplaceWithDivText(TxtImage)
                   [] node.tag = "pre" -> ReplaceWithDivText(TxtCode)
                   [] node.tag = "a" -> [node EXCEPT !.attrs = node.attrs \ {"rel"}]
                   [] OTHER -> node
    IN  [child EXCEPT !.kids = [i \in DOMAIN child.kids |-> ProcessElement(child.kids[i])]]

\* 发送.rs:42-63: process_elements over a list of nodes
ProcessElements(nodes) == [i \in DOMAIN nodes |-> ProcessElement(nodes[i])]

\* the tokens of an HTML string: a start tag with its attributes, an end tag,
\* or a run of text
StartTag(tag, attrs) == [k |-> "start", tag |-> tag, attrs |-> attrs, text |-> <<>>]
EndTag(tag) == [k |-> "end", tag |-> tag, attrs |-> {}, text |-> <<>>]
Chars_(contents) == [k |-> "chars", tag |-> "", attrs |-> {}, text |-> contents]

\* html5ever serializer: elements written without an end tag
VoidTags == {"img"}

RECURSIVE Serialize(_)
\* 发送.rs:65-71: html5ever::serialize of a list of nodes
Serialize(nodes) ==
    IF nodes = <<>> THEN <<>>
    ELSE LET n == Head(nodes)
             one == CASE n.tag = "#text" -> <<Chars_(n.text)>>
                      [] n.tag \in VoidTags -> <<StartTag(n.tag, n.attrs)>>
                      [] OTHER -> <<StartTag(n.tag, n.attrs)>> \o Serialize(n.kids)
                                     \o <<EndTag(n.tag)>>
         IN  one \o Serialize(Tail(nodes))

\* the stack of open elements: each open element with the children it has so far;
\* the first is the root the fragment is parsed into
Root == Element("html", {}, <<>>)

\* insertion of a node at the current node; text joins a preceding text node
InsertNode(stack, node) ==
    LET n == Len(stack)
        kids == stack[n].kids
        joined == IF node.tag = "#text" /\ kids # <<>> /\ kids[Len(kids)].tag = "#text"
                  THEN [kids EXCEPT ![Len(kids)] = Text(kids[Len(kids)].text \o node.text)]
                  ELSE Append(kids, node)
    IN  [stack EXCEPT ![n] = [stack[n] EXCEPT !.kids = joined]]

\* the current node is popped off the stack; it stays a child of its parent
PopNode(stack) == InsertNode(SubSeq(stack, 1, Len(stack) - 1), stack[Len(stack)])

RECURSIVE PopUntil(_, _)
\* elements are popped until one with the tag has been popped
PopUntil(stack, tag) ==
    IF Len(stack) <= 1 THEN stack
    ELSE IF stack[Len(stack)].tag = tag THEN PopNode(stack)
    ELSE PopUntil(PopNode(stack), tag)

\* the stack has an element with the tag in scope (none of the modelled
\* elements ends a scope)
InScope(stack, tag) == \E i \in 2..Len(stack) : stack[i].tag = tag

\* tree construction, "in body": the elements whose start tag closes an open <p>
ClosesP == {"div", "p", "pre"}

\* 发送.rs:16-24: html5ever's tree builder for one token, "in body"
\* (HTML standard 13.2.6.4.7): a start tag of div, p or pre closes an open <p>;
\* </p> without an open <p> inserts an empty one; another end tag without its
\* element open is ignored
TreeStep(stack, tok) ==
    CASE tok.k = "chars" -> InsertNode(stack, Text(tok.text))
      [] tok.k = "start" /\ tok.tag \in VoidTags ->
            InsertNode(stack, Element(tok.tag, tok.attrs, <<>>))
      [] tok.k = "start" /\ tok.tag \in ClosesP ->
            Append(IF InScope(stack, "p") THEN PopUntil(stack, "p") ELSE stack,
                   Element(tok.tag, tok.attrs, <<>>))
      [] tok.k = "start" -> Append(stack, Element(tok.tag, tok.attrs, <<>>))
      [] tok.k = "end" /\ tok.tag = "p" ->
            IF InScope(stack, "p") THEN PopUntil(stack, "p")
            ELSE InsertNode(stack, Element("p", {}, <<>>))
      [] OTHER -> IF InScope(stack, tok.tag) THEN PopUntil(stack, tok.tag) ELSE stack

RECURSIVE TreeBuild(_, _)
TreeBuild(stack, toks) ==
    IF toks = <<>> THEN stack ELSE TreeBuild(TreeStep(stack, Head(toks)), Tail(toks))

RECURSIVE PopAll(_)
PopAll(stack) == IF Len(stack) <= 1 THEN stack ELSE PopAll(PopNode(stack))

\* 发送.rs:16-24: parse_fragment in a body context: the children of the root
ParseFragment(toks) == PopAll(TreeBuild(<<Root>>, toks))[1].kids

\* 发送.rs:15-74: process_html
ProcessHtml(toks) == Serialize(ProcessElements(ParseFragment(toks)))

\* the articles: text, images, and div, p, pre and a elements nested up to
\* MaxDepth deep with up to MaxKids children
LeafNodes == {Text(<<"t">>), Element("img", {"src"}, <<>>)}
Containers == {Element("div", {}, <<>>), Element("p", {}, <<>>), Element("pre", {}, <<>>),
               Element("a", {"href", "rel"}, <<>>)}
KidLists(nodes) == UNION {[1..n -> nodes] : n \in 0..MaxKids}

RECURSIVE Nodes(_)
Nodes(depth) ==
    IF depth = 0 THEN LeafNodes \cup Containers
    ELSE LeafNodes \cup {[c EXCEPT !.kids = kids] : c \in Containers,
                                                     kids \in KidLists(Nodes(depth - 1))}

RECURSIVE HasLink(_)
HasLink(node) == node.tag = "a" \/ \E i \in DOMAIN node.kids : HasLink(node.kids[i])

RECURSIVE Plain(_)
\* the article needs none of the tree builder's rules for formatting elements
\* (adoption agency, reconstruction): no <a> inside <a> or <p>, and no two
\* text nodes side by side
Plain(node) ==
    /\ node.tag \in {"a", "p"} => \A i \in DOMAIN node.kids : ~HasLink(node.kids[i])
    /\ \A i \in DOMAIN node.kids : Plain(node.kids[i])

Articles == {kids \in KidLists(Nodes(MaxDepth)) \ {<<>>} : \A i \in DOMAIN kids : Plain(kids[i])}

SanitizerIdle ==
    /\ html = <<>>
    /\ once = <<>>
    /\ twice = <<>>
    /\ zpc = 0

\* an article's content_html has been scraped
InitSanitizer ==
    /\ html \in {Serialize(a) : a \in Articles}
    /\ once = <<>>
    /\ twice = <<>>
    /\ zpc = 0

\* 发送.rs:85: process_html(content_html)
ZSanitize ==
    /\ zpc = 0
    /\ once' = ProcessHtml(html)
    /\ zpc' = 1
    /\ UNCHANGED <<html, twice>>
    /\ UNCHANGED <<upperVars, dVars, hVars, svVars, ehVars>>

\* process_html applied to its own output
ZSanitizeAgain ==
    /\ zpc = 1
    /\ twice' = ProcessHtml(once)
    /\ zpc' = 2
    /\ UNCHANGED <<html, once>>
    /\ UNCHANGED <<upperVars, dVars, hVars, svVars, ehVars>>

NextSanitizer ==
    \/ ZSanitize
    \/ ZSanitizeAgain


\* the controller, the authorizer and the transports as the parts below see them
InitUpper == CtlIdle /\ AuthIdle /\ InitWs /\ InitEngine /\ InitWebhook /\ NoReadyYet

\* the parts below the transports as the other specifications see them
InitRest == InitDispatch /\ HandlerIdle /\ ServiceIdle /\ SanitizerIdle /\ NoReadyYet

InitWebhookSpec == InitWebhook /\ CtlIdle /\ AuthIdle /\ InitWs /\ InitEngine /\ InitRest

WebhookSpec == InitWebhookSpec /\ [][NextWebhook]_vars

InitDispatchSpec == InitDispatch /\ InitUpper /\ HandlerIdle /\ ServiceIdle /\ SanitizerIdle

InitHandlerSpec == InitHandler /\ InitUpper /\ InitDispatch /\ ServiceIdle /\ SanitizerIdle

HandlerSpec == InitHandlerSpec /\ [][NextHandler]_vars

DispatchSpec == InitDispatchSpec /\ [][NextDispatch]_vars

InitServiceSpec == ServiceIdle /\ InitUpper /\ InitDispatch /\ HandlerIdle /\ SanitizerIdle

ServiceSpec == InitServiceSpec /\ [][NextService]_vars

InitSanitizerSpec ==
    InitSanitizer /\ InitUpper /\ InitDispatch /\ HandlerIdle /\ ServiceIdle

SanitizerSpec == InitSanitizerSpec /\ [][NextSanitizer]_vars

InitEngineSpec == InitEngine /\ CtlIdle /\ AuthIdle /\ InitWs /\ InitWebhook /\ InitRest

EngineSpec == InitEngineSpec /\ [][NextEngine]_vars

\* every await of the engine completes and the clock advances; nothing is
\* assumed of what the server sends or of the operator
EngineLive == InitEngineSpec /\ [][NextEngine]_vars /\ WF_vars(NextEngine)

InitAuthSpec == InitAuth /\ CtlIdle /\ InitWs /\ InitEngine /\ InitWebhook /\ InitRest

AuthSpec == InitAuthSpec /\ [][NextAuth]_vars

InitWsSpec == InitWs /\ CtlIdle /\ AuthIdle /\ InitEngine /\ InitWebhook /\ InitRest

WsSpec == InitWsSpec /\ [][NextWs]_vars

Init == InitCtl /\ AuthIdle /\ InitWs /\ InitEngine /\ InitWebhook /\ InitRest

Next == NextCtl

Spec == Init /\ [][Next]_vars

\* the handlers run one at a time: a command begins when no other is in progress
AllIdle == \A t \in Tasks : pc[t] = "idle"

NextSeq ==
    \/ \E t \in Tasks, url \in Urls : AllIdle /\ ScrapeBegin(t, url)
    \/ \E t \in Tasks : \E res \in FetchablePosts(posts) \cup {NoPost} : ScrapeFetched(t, res)
    \/ \E t \in Tasks : ScrapeGc(t)
    \/ \E t \in Tasks : ScrapeInsert(t)
    \/ \E t \in Tasks, date \in EditableDates : AllIdle /\ PublishLookup(t, date)
    \/ \E t \in Tasks, ok \in BOOLEAN : PublishSent(t, ok)
    \/ \E t \in Tasks : ReplySent(t)

InitSeqSpec == InitSeq /\ AuthIdle /\ InitWs /\ InitEngine /\ InitWebhook /\ InitRest

SeqSpec == InitSeqSpec /\ [][NextSeq]_vars

TypeOK ==
    /\ DOMAIN posts \subseteq Dates
    /\ \A d \in DOMAIN posts : posts[d] \in Titles
    /\ pc \in [Tasks -> {"idle", "fetching", "fetched", "inserting", "sending", "replying"}]

(***************************************************************************)
(* Properties of the controller.                                           *)
(***************************************************************************)

\* task t has completed a successful scrape and has not replied yet
ScrapeDone(t) ==
    /\ pc[t] = "replying"
    /\ cmd[t].op = "paqu"
    /\ outcome[t] = "fetch_ok"

\* the step is task t's insertion (爬取.rs:28-31)
InsertStep(t) == pc[t] = "inserting" /\ pc'[t] = "replying"

\* the step is the return of task t's thread-publish call with Ok
PublishOkStep(t) == pc[t] = "sending" /\ outcome'[t] = "send_ok"

\* every entry of m but the one of date d is in m2, unchanged
OthersKept(m, m2, d) ==
    \A e \in (DOMAIN m) \ {d} : e \in DOMAIN m2 /\ m2[e] = m[e]

\* C1: no insertion of a date by a scrape is followed by more than one
\* successful thread-publish call of the article it inserted, whatever the
\* interleaving of the publish handlers.
C1_AtMostOncePublication ==
    \A d \in EditableDates : threadPublishes[d] <= 1

\* C4 as stated: once a scrape's insertion has completed the cache holds at
\* most GcThreshold (20) entries.
C4_SizeWithinThreshold ==
    \A t \in Tasks : ScrapeDone(t) => Len_(posts) <= GcThreshold

\* C4 as amended: with the commands run one at a time the cache never holds
\* more than GcThreshold + 1 (21) entries.
C4_SizeAtMostThresholdPlusOne ==
    Len_(posts) <= GcThreshold + 1

\* a scrape has completed its insertion and the cache holds 21 entries
C4_Witness ==
    \E t \in Tasks : ScrapeDone(t) /\ Len_(posts) = GcThreshold + 1

\* C5: for every scrape whose capacity check found more than 20 entries the
\* cache holds exactly one entry immediately after the scrape's own insertion.
C5_SoleEntryAfterGc ==
    [][\A t \in Tasks :
          (InsertStep(t) /\ Len_(cacheAtGc[t]) > GcThreshold) => Len_(posts') = 1]_vars

\* C6: for a successful scrape run with no other handler interleaved: if its
\* capacity check found more than 20 entries, the new article is the sole entry
\* afterwards and the reply starts with the GC text; otherwise no entry of
\* another date was removed or changed and the reply carries no GC text.
C6_SequentialScrape ==
    \A t \in Tasks :
        ScrapeDone(t) =>
            IF Len_(cacheAtGc[t]) > GcThreshold
            THEN /\ posts = MapInsert(EmptyMap, post[t].date, post[t].title)
                 /\ Len_(posts) = 1
                 /\ reply[t].gc = TxtGcDone
            ELSE /\ OthersKept(cacheAtGc[t], posts, post[t].date)
                 /\ post[t].date \in DOMAIN posts
                 /\ posts[post[t].date] = post[t].title
                 /\ reply[t].gc = ""

\* a scrape that found 21 entries has completed
C6_Witness ==
    \E t \in Tasks : ScrapeDone(t) /\ Len_(cacheAtGc[t]) > GcThreshold

\* C7: the step in which a publish of date D succeeds removes D and only D:
\* afterwards D is absent, every other entry is present and unchanged, and
\* nothing was added.
C7_PublishRemovesOnlyItsDate ==
    [][\A t \in Tasks :
          PublishOkStep(t) =>
              /\ cmd[t].arg \notin DOMAIN posts'
              /\ OthersKept(posts, posts', cmd[t].arg)
              /\ DOMAIN posts' \subseteq DOMAIN posts]_vars

\* a publish has succeeded and left the other 20 entries in the cache
C7_Witness ==
    \E t \in Tasks :
        /\ pc[t] = "replying" /\ outcome[t] = "send_ok" /\ touched[t]
        /\ cmd[t].arg \notin DOMAIN posts
        /\ Len_(posts) >= GcThreshold

\* C8: a failing command leaves the cache unchanged.  A publish whose
\* thread-publish call fails changes nothing; a publish of a date that is not
\* cached makes no thread-publish call; a scrape whose url lacks the origin
\* never calls the crawler; a scrape whose crawler call fails changes nothing;
\* and none of these commands has changed the cache when it replies.
C8_FailureLeavesCache ==
    [][\A t \in Tasks :
          /\ (pc[t] = "sending" /\ outcome'[t] = "send_err") =>
                 (posts' = posts /\ ~touched'[t])
          /\ (pc[t] = "idle" /\ cmd'[t].op = "fasong" /\ cmd'[t].arg \notin DOMAIN posts) =>
                 (posts' = posts /\ sendCalls'[t] = 0 /\ pc'[t] = "replying"
                  /\ ~touched'[t])
          /\ (pc[t] = "idle" /\ cmd'[t].op = "paqu" /\ ~HasPrefix(cmd'[t].arg, Origin)) =>
                 (posts' = posts /\ crawlerCalls'[t] = 0 /\ pc'[t] = "replying"
                  /\ ~touched'[t])
          /\ (pc[t] = "fetching" /\ outcome'[t] = "fetch_err") =>
                 (posts' = posts /\ pc'[t] = "replying" /\ ~touched'[t])
          /\ (pc[t] = "replying" /\ pc'[t] = "idle") => posts' = posts]_vars

\* a publish has failed while its article is still cached, to be retried
C8_Witness ==
    \E t \in Tasks :
        /\ pc[t] = "replying" /\ outcome[t] = "send_err"
        /\ cmd[t].arg \in DOMAIN posts
        /\ posts[cmd[t].arg] = post[t].title

\* C9: the insertion of an article whose date is cached replaces the stored
\* article and leaves every other entry and the size unchanged; the reply
\* says "rescraped" iff the date was cached at the insertion, and "scraped"
\* without "re" otherwise.
C9_InsertReplaces ==
    [][\A t \in Tasks :
          InsertStep(t) =>
              LET d == post[t].date IN
              /\ d \in DOMAIN posts =>
                     /\ posts' = [posts EXCEPT ![d] = post[t].title]
                     /\ Len_(posts') = Len_(posts)
              /\ posts'[d] = post[t].title
              /\ OthersKept(posts, posts', d)
              /\ (reply'[t].text = TxtRescraped) <=> d \in DOMAIN posts
              /\ (reply'[t].text = TxtScraped) <=> d \notin DOMAIN posts]_vars

\* an article was replaced by one with another title, among other entries
C9_Witness ==
    \E t \in Tasks :
        /\ ScrapeDone(t)
        /\ reply[t].text = TxtRescraped
        /\ post[t].date \in DOMAIN cacheAtGc[t]
        /\ cacheAtGc[t][post[t].date] # post[t].title
        /\ post[t].date \in DOMAIN posts
        /\ posts[post[t].date] = post[t].title
        /\ Len_(posts) > 1

(***************************************************************************)
(* Properties of the caching authorizer.                                   *)
(***************************************************************************)

\* caller c's call returns with this step
ReturnStep(c) == apc[c] # "returned" /\ apc'[c] = "returned"

\* the first response to arrive during c's call was a success whose
\* expires_in exceeds the margin
RefreshSucceeded(c) ==
    /\ firstResp'[c].kind = "ok"
    /\ firstResp'[c].expires_in > RefreshMargin

\* another caller's call was in progress with c's when that response arrived
Concurrent(c) == \E d \in Callers \ {c} : firstResp'[d] = firstResp'[c]

\* c returns before the refreshed token, counted from the time stored with
\* it, comes within the margin of its deadline
ReturnsInTime(c) ==
    clock - firstResp'[c].at < firstResp'[c].expires_in - RefreshMargin

\* one request served c's call and c returns that request's token
SingleFlight(c) ==
    /\ respSeen'[c] = 1
    /\ ret'[c] = Ok(firstResp'[c].access_token)

\* C2 as stated: when a refresh that succeeds with expires_in > 60 answers
\* two or more concurrent callers of get_access_token, exactly one token
\* request is sent for them and each of them returns the new token.
C2_SingleFlightAlways ==
    [][\A c \in Callers :
          ReturnStep(c) /\ RefreshSucceeded(c) /\ Concurrent(c) => SingleFlight(c)]_vars

\* C2: when a refresh that succeeds with expires_in > 60 answers two or more
\* concurrent callers of get_access_token, every one of them that returns
\* less than expires_in - 60 seconds after the time the refreshing caller
\* read before it took the lock has had exactly one token request sent for
\* it and returns the new token.
C2_SingleFlightInTime ==
    [][\A c \in Callers :
          ReturnStep(c) /\ RefreshSucceeded(c) /\ Concurrent(c) /\ ReturnsInTime(c)
              => SingleFlight(c)]_vars

\* two calls overlapped, one of them sent the only request, and both have
\* returned the refreshed token in time
C2_Witness ==
    \E c \in Callers, d \in Callers :
        /\ c # d
        /\ apc[c] = "returned" /\ apc[d] = "returned"
        /\ firstResp[c].kind = "ok" /\ firstResp[c].expires_in > RefreshMargin
        /\ firstResp[d] = firstResp[c]
        /\ clock - firstResp[c].at < firstResp[c].expires_in - RefreshMargin
        /\ respSeen[c] = 1 /\ respSeen[d] = 1
        /\ mine[c] = 1 /\ mine[d] = 0
        /\ requests = 1
        /\ ret[c] = Ok(firstResp[c].access_token) /\ ret[d] = ret[c]

\* the step is caller c's test of the stored token (authorizer.rs:85-94)
CheckStep(c) == apc[c] = "locking" /\ apc'[c] # "locking"

\* seconds from now to the stored token's deadline, issue time + expires_in
Remaining == lastResponse.at + lastResponse.expires_in - clock

SendsRequest == requests' # requests

ReturnsStored(c) ==
    /\ apc'[c] = "returned"
    /\ ret'[c] = Ok(lastResponse.access_token)
    /\ ~SendsRequest

InAuthPhase(e) == wpc[e] \in {"hello", "authenticating", "identified", "resuming"}

\* C3: at no time are two engines of the process between the start of their
\* handshake and the end of their identify, on the initial connect and on
\* every reconnect.
C3_OneEngineInAuthPhase ==
    \A e \in Engines, f \in Engines : InAuthPhase(e) /\ InAuthPhase(f) => e = f

\* an engine that reconnects is in its handshake+identify phase while
\* another engine, on its initial connect, waits for the lock
C3_Witness ==
    \E e \in Engines, f \in Engines :
        /\ e # f
        /\ InAuthPhase(e) /\ ~initial[e]
        /\ wpc[f] = "locking" /\ initial[f]


\* ---------------------------------------------------------------------------
\* C11: once the quit signal has been raised, the engine's run-loop
\* eventually returns (with Ok, after a close frame), whatever the engine was
\* doing when the signal was raised.
C11_QuitEndsEngine == quitRaised ~> (epc = "stopped")

\* ---------------------------------------------------------------------------
\* C13: a transport-level error never terminates the run-loop, also not when
\* it happens in the connect, the handshake, the identify or the first
\* heartbeat of a reconnect attempt.
C13_TransportErrorNeverTerminates == reconnect => eresult \notin IoErrors

\* ---------------------------------------------------------------------------
\* C14: when the Authorizer answers the token request of an identify (the
\* initial one or a re-identify) with a platform API error, the run-loop
\* terminates returning that AccessTokenError, and nothing is attempted
\* afterwards: no reconnect, no RESUME, no IDENTIFY.
C14_ApiErrorTerminates ==
    [][/\ EToken("AccessTokenApiError") =>
             (epc' = "stopped" /\ eresult' = "AccessTokenApiError")
       /\ eresult = "AccessTokenApiError" =>
             UNCHANGED <<epc, eresult, sent, identifies, resumes>>]_vars

\* a re-identify has ended the run-loop with the API error
C14_Witness ==
    /\ epc = "stopped" /\ eresult = "AccessTokenApiError"
    /\ reconnect /\ cause \in {"Code7", "Code9", "UnexpectedData"}

\* ---------------------------------------------------------------------------
\* C15: a protocol decode error - malformed JSON, or a message of an
\* unexpected opcode such as a non-HELLO during the handshake
\* (ReturnCodeError of that opcode) - is ignoreable in every phase: the
\* run-loop neither terminates nor reconnects because of it.
C15_DecodeErrorNeverTerminates == eresult \notin {"InvalidJson", "Code11"}

\* ---------------------------------------------------------------------------
\* C16: when a resumable error ends the receive loop, the engine sleeps 5
\* seconds, reconnects, handshakes and sends RESUME with the interrupted
\* session's token, session_id and last_seq; it sends no IDENTIFY and
\* continues the same session.
C16_ResumableErrorResumes ==
    /\ [](reconnect /\ eerr = "ResetWithoutClosingHandshake" =>
             /\ epc \in {"retry", "backoff", "connect", "hello", "resume", "stopped"}
             /\ epc \in {"connect", "hello", "resume"} => slept = BackoffSecs)
    /\ [](cause = "ResetWithoutClosingHandshake" /\ resumes = 0 => identifies = 0)
    /\ [][epc = "resume" /\ epc' # "resume" =>
             /\ sent' = Sent("RESUME", interrupted.token, interrupted.session_id,
                             interrupted.last_seq)
             /\ epc' = "outer" => (session' = interrupted /\ identifies = 0)]_vars

\* a reset connection has been resumed with the session's values
C16_Witness ==
    /\ epc = "outer" /\ sent.kind = "RESUME"
    /\ cause = "ResetWithoutClosingHandshake" /\ slept = BackoffSecs
    /\ identifies = 0 /\ resumes = 1
    /\ session = interrupted /\ session.last_seq = MaxSeq
    /\ sent.seq = MaxSeq /\ sent.session_id = session.session_id

\* ---------------------------------------------------------------------------
\* C17: after the server has ended the connection with close code 4008 or
\* 4009 the engine re-establishes the session with RESUME and sends no
\* IDENTIFY; after a close code in 4006..=4007 or 4900..=4913 it identifies
\* from scratch and sends no RESUME.
C17_CloseCodeDecidesResume ==
    /\ closeCode \in {4008, 4009} => identifies = 0
    /\ closeCode \in (4006..4007) \cup (4900..4913) => resumes = 0

\* ---------------------------------------------------------------------------
\* C18: OP_RECONNECT (ReturnCodeError(7)) and OP_INVALID_SESSION
\* (ReturnCodeError(9)) do not terminate the run-loop; the engine reconnects,
\* handshakes and identifies from scratch (no RESUME; the new session has
\* READY's session_id and a re-initialised last_seq); every reconnect is
\* preceded by the 5-second sleep except the one for code 9.  (The run-loop
\* returns ReturnCodeError(7) or (9) only from authenticate, when such an
\* envelope answers IDENTIFY, ws.rs:153-157.)
C18_ReconnectAndInvalidSession ==
    /\ [][(eresult' \in {"Code7", "Code9"} /\ eresult' # eresult) => (epc = "ready")]_vars
    /\ [](cause \in {"Code7", "Code9"} => (resumes = 0 /\ epc # "resume"))
    /\ [](reconnect /\ epc = "connect" =>
             slept = IF eerr = "Code9" THEN 0 ELSE BackoffSecs)
    /\ [][(cause \in {"Code7", "Code9"} /\ epc # "outer" /\ epc' = "outer") =>
             (epc = "first_hb" /\ identifies = 1 /\ Cardinality(seen) <= 1
              /\ session.last_seq = SetMax(seen))]_vars

\* after OP_INVALID_SESSION a new session has been identified without a sleep
C18_Witness ==
    /\ epc = "outer" /\ cause = "Code9"
    /\ slept = 0 /\ identifies = 1 /\ resumes = 0
    /\ interrupted.last_seq = MaxSeq /\ session.last_seq = -1
    /\ session.session_id # interrupted.session_id

\* ---------------------------------------------------------------------------
\* C19: while a session is in its receive loop the engine sends a HEARTBEAT
\* at least once every 30 seconds, however often inbound messages arrive.
C19_HeartbeatEvery30s ==
    epc \in {"select", "timer_hb", "reply_hb"} => sinceHb <= HeartbeatInterval

C12_NoAcceptAfterShutdown == ~lateAccepts

\* ---------------------------------------------------------------------------
\* C21: the handler is invoked exactly once for each well-formed
\* AT_MESSAGE_CREATE dispatch, in the order of arrival, and for nothing else
\* (no other event type, no other opcode); nothing is handed to it again
\* after the receive loop was re-entered.
C21_HandedOnceInOrder ==
    /\ \A k \in 1..Len(handed) :
          /\ handed[k] \in 1..Len(received)
          /\ received[handed[k]] = Event("DISPATCH", "AT_MESSAGE_CREATE", TRUE)
          /\ \A j \in 1..Len(handed) : k < j => handed[k] < handed[j]
    /\ \A i \in 1..Len(received) :
          received[i] = Event("DISPATCH", "AT_MESSAGE_CREATE", TRUE)
             => \E k \in 1..Len(handed) : handed[k] = i

\* an at-message was handed over, the server asked for a reconnect, and the
\* receive loop runs again
C21_Witness ==
    /\ dloop = "receiving"
    /\ Len(received) = 2
    /\ received[2].op = "RECONNECT"
    /\ handed = <<1>>

\* ---------------------------------------------------------------------------
\* C22: the receive loop does not wait for a command handler: whatever the
\* handlers' tasks are doing (running, blocked on an outbound call, failed),
\* the engine can receive the next event, and no step of a handler's task
\* changes the state of the receive loop.
C22_LoopIndependentOfHandlers ==
    /\ []((dloop = "receiving" /\ Len(received) < MaxEvents)
             => ENABLED (\E ev \in Events, sendOk \in BOOLEAN : DReceive(ev, sendOk)))
    /\ [][(htask' # htask /\ received' = received) =>
             (dloop' = dloop /\ handed' = handed /\ hbReplies' = hbReplies)]_vars

\* two command handlers are in progress at once, one of them blocked
C22_Witness ==
    /\ dloop = "receiving"
    /\ htask[1] = "blocked"
    /\ htask[2] = "running"

\* ---------------------------------------------------------------------------
\* C23: for an at-message whose author is not the whitelisted id, whatever
\* its content, the dispatcher invokes no controller operation and makes no
\* outbound call.
C23_UnlistedAuthorIgnored ==
    hmsg.author # "1453422017104534300" => (ops = <<>> /\ calls = <<>>)

\* a publish command of another author has been handled
C23_Witness ==
    /\ mpc = "done"
    /\ hmsg.author = "1453422017104534301"
    /\ hmsg.cmd = "publish"
    /\ calls = <<>>

\* ---------------------------------------------------------------------------
\* C24: for every at-message of the whitelisted author the dispatcher invokes
\* at most one controller operation and then makes exactly one reply call,
\* with the msg_id and channel_id of the message, whatever the command.
C24_ExactlyOneReply ==
    (hmsg.author = "1453422017104534300" /\ mpc \in {"done", "panicked"}) =>
        /\ Len(ops) <= 1
        /\ Len(calls) >= 1
        /\ calls[Len(calls)].api = "reply_text_to_channel_message"
        /\ calls[Len(calls)].msg_id = hmsg.id
        /\ calls[Len(calls)].channel_id = hmsg.channel_id
        /\ \A i \in 1..(Len(calls) - 1) : calls[i].api # "reply_text_to_channel_message"

\* ---------------------------------------------------------------------------
\* C29: every thread-publish call of the publish command targets the
\* configured news channel, whatever the channel of the inbound message.
C29_ThreadGoesToNewsChannel ==
    \A i \in 1..Len(calls) :
        calls[i].api = "send_channel_thread_html" => calls[i].channel_id = "news"

\* a publish command from another channel has published its thread
C29_Witness ==
    /\ hmsg.channel_id = "lobby"
    /\ mpc = "done"
    /\ \E i \in 1..Len(calls) : calls[i].api = "send_channel_thread_html"

\* ---------------------------------------------------------------------------
\* C30: the content of every reply call contains no ASCII full stop: it is
\* the computed reply with each ASCII full stop replaced by the full-width
\* one and every other character unchanged.
C30_NoAsciiFullStop ==
    \A i \in 1..Len(calls) :
        calls[i].api = "reply_text_to_channel_message" =>
            /\ Len(calls[i].content) = Len(replyMsg)
            /\ \A k \in 1..Len(replyMsg) :
                  /\ calls[i].content[k] # "."
                  /\ replyMsg[k] = "." => calls[i].content[k] = "FW"
                  /\ replyMsg[k] # "." => calls[i].content[k] = replyMsg[k]

\* a reply with an ASCII full stop and another character has been sent
C30_Witness ==
    /\ mpc = "done"
    /\ replyMsg = <<".", "x">>
    /\ calls[Len(calls)].content = <<"FW", "x">>

\* a request has been answered
Answered == spc = "responded"

\* the request was within the size limit and its body is a JSON envelope
WellFormedServed == Answered /\ ~TooLarge(sreq.declared) /\ sreq.body.json

\* C25: a well-formed webhook request within the size limit is answered by its
\* opcode: a DISPATCH whose data decodes goes through the dispatch routine (the
\* handler is invoked once for AT_MESSAGE_CREATE, not at all for another type)
\* and is answered 200 with {}; a challenge is answered 200 with the request's
\* plain_token and the signature of event_ts + plain_token; any other opcode is
\* answered 400 with {error: "Unknown opcode"} and no handler call.
C25_ResponseByOpcode ==
    WellFormedServed =>
       CASE sreq.body.op = "DISPATCH" ->
               (sreq.body.ok =>
                  /\ resp.status = 200
                  /\ resp.body = JsonEmpty
                  /\ svHanded = IF sreq.body.type = "AT_MESSAGE_CREATE" THEN 1 ELSE 0)
         [] sreq.body.op = "HTTP_CALLBACK_CHALLENGE" ->
               (sreq.body.ok =>
                  /\ resp.status = 200
                  /\ resp.body.plain_token = sreq.body.plain_token
                  /\ resp.body.signature =
                        CalculateChallengeResponse(<<sreq.body.event_ts,
                                                     sreq.body.plain_token>>)
                  /\ svHanded = 0)
         [] OTHER ->
               /\ resp.status = 400
               /\ resp.body = JsonError("Unknown opcode")
               /\ svHanded = 0

\* an unknown opcode has been answered
C25_Witness ==
    /\ WellFormedServed
    /\ sreq.body.op = "HEARTBEAT_ACK"
    /\ resp.status = 400
    /\ bodyRead

\* C26: a request whose body is malformed JSON is answered 400 with a JSON
\* body {error: <reason>}, never 500.
C26_MalformedJsonIs400 ==
    (Answered /\ ~TooLarge(sreq.declared) /\ ~sreq.body.json) =>
       (resp.status = 400 /\ resp.body.error # "")

\* C27: a request whose declared content-length exceeds 65536 bytes is
\* answered 413 at once, its body never read and no handler invoked; a request
\* whose declared content-length is at most 65536 bytes is never answered 413.
C27_SizeLimit ==
    (sreq # NoRequest /\ sreq.declared # <<>>) =>
       IF sreq.declared[1] > 65536
       THEN Answered /\ resp.status = 413 /\ ~bodyRead /\ svHanded = 0
       ELSE resp.status # 413 /\ spc \in {"collect", "responded", "failed"}
            /\ (Answered => bodyRead)

\* a request one byte over the limit has been rejected
C27_Witness ==
    /\ Answered
    /\ sreq.declared = <<65537>>
    /\ resp.status = 413
    /\ ~bodyRead

\* C28: every response the service produces has a JSON body and carries the
\* header content-type: application/json; charset=utf-8.
C28_AlwaysJsonContentType ==
    Answered => (resp.body.json = "object" /\ resp.ctype = "application/json; charset=utf-8")

\* the markup has no <img>, no <pre> and no rel attribute on an <a>
Clean(toks) ==
    \A i \in DOMAIN toks :
        toks[i].k = "start" =>
            /\ toks[i].tag \notin {"img", "pre"}
            /\ toks[i].tag = "a" => "rel" \notin toks[i].attrs

\* C31: the sanitizer's output has no img element, no pre element and no rel
\* attribute on an a element at any depth, and the sanitizer is idempotent:
\* applied to its own output it returns that output unchanged.
C31_CleanAndIdempotent ==
    /\ zpc >= 1 => Clean(once)
    /\ zpc = 2 => twice = once

\* the first half of C31 alone: the output is clean
C31_OutputClean == zpc >= 1 => Clean(once)

\* the envelope that answered IDENTIFY is a DISPATCH of type READY that decodes
ReadyAccepted == readyMsg.op = "DISPATCH" /\ readyMsg.type = "READY" /\ readyMsg.ok

\* C32: after IDENTIFY only a DISPATCH of type READY is accepted: another
\* opcode ends the identify with ReturnCodeError(opcode), a DISPATCH of another
\* type with UnexpectedData; and after a successful identify, initial or not,
\* the next frame sent is a HEARTBEAT, and no inbound event is received (so none
\* is handed to the handler) before it.
C32_OnlyReadyThenHeartbeat ==
    /\ [](readyMsg # NoReply_ =>
            IF ReadyAccepted THEN epc = "first_hb"
            ELSE /\ epc = "stopped"
                 /\ readyMsg.op = "HEARTBEAT_ACK" => eresult = "Code11"
                 /\ readyMsg.op = "INVALID_SESSION" => eresult = "Code9"
                 /\ readyMsg.op = "RECONNECT" => eresult = "Code7"
                 /\ (readyMsg.op = "DISPATCH" /\ readyMsg.type # "READY") =>
                        eresult = "UnexpectedData")
    /\ [](epc = "first_hb" =>
            /\ ReadyAccepted
            /\ sent.kind = "IDENTIFY"
            /\ ~ENABLED (\E m \in Inbound, q \in OptSeqs : EReceive(m, q)))
    /\ [][(epc = "first_hb" /\ epc' # "first_hb") => (sent'.kind = "HEARTBEAT")]_vars

\* a re-identify has been answered with READY; the HEARTBEAT is about to be sent
C32_Witness ==
    /\ epc = "first_hb"
    /\ reconnect
    /\ ReadyAccepted

\* the envelopes of the opcode among those received
ReceivedOf(op) == {i \in DOMAIN received : received[i].op = op}

\* C33: each inbound HEARTBEAT is answered with exactly one HEARTBEAT frame;
\* an inbound HEARTBEAT_ACK, HTTP_CALLBACK_ACK or unknown opcode causes no
\* outbound frame and no handler call, and the receive loop goes on (it does
\* not end, so nothing reconnects or replaces the session).
C33_HeartbeatAnsweredAcksIgnored ==
    /\ [](hbReplies = Cardinality(ReceivedOf("HEARTBEAT")))
    /\ [][(received' # received
              /\ received'[Len(received')].op \in {"HEARTBEAT_ACK", "HTTP_CALLBACK_ACK",
                                                    "UNKNOWN_OP"})
          => (/\ hbReplies' = hbReplies
              /\ handed' = handed
              /\ htask' = htask
              /\ dloop' = "receiving")]_vars

\* a HEARTBEAT was answered, then an acknowledgement was ignored
C33_Witness ==
    /\ Len(received) = 2
    /\ received[1].op = "HEARTBEAT"
    /\ received[2].op = "HTTP_CALLBACK_ACK"
    /\ hbReplies = 1
    /\ dloop = "receiving"

\* the retry loop is past a RESUME whose send failed
ResumeFailed ==
    /\ resumes >= 1
    /\ epc \in {"retry", "backoff", "connect", "hello", "token", "identify", "ready",
                "first_hb"}

\* C34: when the send of RESUME fails, the retry loop starts over with the
\* error of that send: it backs off, reconnects and handshakes, and then
\* re-identifies; no second RESUME is sent, and the receive loop is entered
\* again only after a fresh IDENTIFY.
C34_ResumeFailureReidentifies ==
    /\ [](resumes <= 1)
    /\ [](ResumeFailed =>
            /\ reconnect
            /\ epc \in {"retry", "backoff"} => eerr \in SendErrors
            /\ epc \notin {"retry", "backoff"} => slept = BackoffSecs)
    /\ []((epc = "outer" /\ resumes = 1 /\ sent.kind # "RESUME") =>
             (identifies = 1 /\ slept = BackoffSecs))
    /\ [][(epc = "resume" /\ epc' # "resume") =>
             (epc' \in {"outer", "retry"} /\ (epc' = "retry" => eerr' \in SendErrors))]_vars
    /\ [][(ResumeFailed /\ epc = "hello" /\ epc' # "hello") =>
             (epc' \in {"token", "stopped"})]_vars

\* a RESUME failed and the session was re-established by IDENTIFY
C34_Witness ==
    /\ epc = "outer"
    /\ resumes = 1
    /\ identifies = 1
    /\ slept = BackoffSecs
    /\ cause = "ResetWithoutClosingHandshake"

\* C35: when the receive loop ends with a JSON parse error of an inbound
\* message, the engine enters it again with the same socket and the session
\* as the loop left it (session_id, token, last_seq), without back-off sleep,
\* reconnect, RESUME or IDENTIFY.
C35_ParseErrorIgnored ==
    /\ [](cause = "InvalidJson" =>
            /\ epc \in {"retry", "outer"}
            /\ session = interrupted
            /\ slept = 0 /\ resumes = 0 /\ identifies = 0
            /\ eresult = "none")
    /\ [][(epc = "retry" /\ eerr = "InvalidJson" /\ epc' # "retry") =>
             (/\ epc' = "outer"
              /\ session' = session
              /\ wsClosed' = wsClosed
              /\ sent' = sent)]_vars
    /\ [][(epc = "outer" /\ cause = "InvalidJson" /\ epc' # "outer") =>
             (epc' = "select" /\ session' = session /\ wsClosed' = wsClosed)]_vars

\* an envelope whose data did not decode ended the loop, and the loop is about
\* to be entered again on the open socket
C35_Witness ==
    /\ epc = "outer"
    /\ cause = "InvalidJson"
    /\ ~wsClosed
    /\ session.last_seq >= 0

\* where run_loop can return an error from: the connect, the handshake and the
\* identify with its token request, its wait for READY and its first HEARTBEAT
ConnectPhase == {"connect", "hello", "token", "identify", "ready", "first_hb"}

\* C39: no error of the receive loop ends run_loop directly: every error
\* run_loop_inner ends with is ignoreable or recoverable, so run_loop returns
\* an error only from a connect, a handshake, an identify or the HEARTBEAT
\* after it, on the first connection or on a reconnect.
C39_LoopErrorsNeverFatal ==
    /\ [](epc = "retry" => (is_ignoreable(eerr) \/ is_recoverable(eerr)))
    /\ [][(eresult' # eresult /\ eresult' # "ok") => (epc \in ConnectPhase)]_vars
    /\ [](eresult \notin {"none", "ok"} => epc = "stopped")

\* the server asked for a reconnect, and the reconnect attempt failed: run_loop
\* has returned the error of the connect
C39_Witness ==
    /\ epc = "stopped"
    /\ cause = "Code7"
    /\ eresult = "WsOther"
    /\ reconnect

\* the engine is between taking the lock and the end of the statement or loop
\* body that owns the handshake's result
HoldsHandshake(e) == wpc[e] \in {"hello", "authenticating", "identified", "heartbeat",
                                 "resuming"}

\* C38: the auth-group lock is released on every exit from the handshake and
\* identify phase (identify succeeded, RESUME sent, RESUME failed, an error
\* returned), and an engine never asks for the lock while it holds it: an
\* engine outside the phase never holds the lock, so it keeps no engine, and
\* not its own next reconnect, from taking it.
C38_LockReleasedOnExit ==
    /\ [](\A e \in Engines : authGroup = e => HoldsHandshake(e))
    /\ [](\A e \in Engines : wpc[e] = "locking" => authGroup # e)
    /\ [][\A e \in Engines :
            (HoldsHandshake(e) /\ ~HoldsHandshake(e)') => (authGroup' # e)]_vars
    /\ []((\A e \in Engines : ~HoldsHandshake(e)) => authGroup = 0)

\* an engine whose RESUME failed has left the phase, and the other engine has
\* taken the lock
C38_Witness ==
    \E e \in Engines, f \in Engines :
        /\ e # f
        /\ ~initial[e] /\ wpc[e] \in {"retry", "connecting", "locking"}
        /\ werr[e] \in SendErrors
        /\ authGroup = f

\* seconds from the instant caller c read (authorizer.rs:83) to the stored
\* token's deadline, issue time + expires_in
RemainingAt(c) == lastResponse.at + lastResponse.expires_in - now[c]

\* C36: get_access_token never returns a token that, at the time of its
\* check, is less than 60 seconds before its deadline: a stored token whose
\* expires_in is below 60 is refreshed, and the subtraction expires_in - 60
\* of the test neither panics nor wraps.
C36_NeverReturnsNearDeadline ==
    [][\A c \in Callers : CheckStep(c) =>
          (/\ apc'[c] # "panicked"
           /\ lastResponse.expires_in < RefreshMargin => SendsRequest
           /\ apc'[c] = "returned" => RemainingAt(c) >= RefreshMargin)]_vars

\* for the tokens whose expires_in is at least 60 the returned token is more
\* than 60 seconds before its deadline
C36_ReturnedBeforeMargin ==
    [][\A c \in Callers : (CheckStep(c) /\ lastResponse.expires_in >= RefreshMargin) =>
          (/\ apc'[c] # "panicked"
           /\ apc'[c] = "returned" => RemainingAt(c) > RefreshMargin)]_vars

\* C37: every call of get_access_token comes to an end: it never panics, it
\* sends at most one token request however small the expires_in of the
\* response is, and a failed request ends the call with that error.
C37_ReturnsAfterOneRefresh ==
    /\ [](\A c \in Callers : apc[c] # "panicked" /\ mine[c] <= 1)
    /\ [][\A c \in Callers :
            (apc[c] = "requesting" /\ apc'[c] = "returned") => (ret'[c] = Err)]_vars

\* a response whose expires_in is more than 60 seconds above the time the
\* call has taken is returned after the one request of the call
C37_FreshTokenReturned ==
    [][\A c \in Callers :
          (CheckStep(c) /\ mine[c] = 1
             /\ lastResponse.access_token = requests
             /\ RemainingAt(c) > RefreshMargin) => ReturnsStored(c)]_vars

\* a call has sent a second token request: the response to its first one
\* had an expires_in of 60 or was 60 seconds before its deadline at the
\* second test
C37_SecondRequest ==
    \E c \in Callers : mine[c] = 2 /\ apc[c] = "requesting" /\ ~overflowChecks
                         /\ lastResponse.expires_in >= RefreshMargin

\* the step is the successful return of the thread-publish call of task t
\* (发送.rs:103-106)
PublishedStep(t) == pc[t] = "sending" /\ pc'[t] = "replying" /\ outcome'[t] = "send_ok"

\* C40: a successful publish removes from the cache only the article version
\* it published: the article a concurrent scrape has put in place of the
\* cloned one while the thread-publish call was awaited is not deleted.
C40_RemovesOnlyPublished ==
    [][\A t \in Tasks : PublishedStep(t) =>
          (\A d \in DOMAIN posts :
               d \notin DOMAIN posts' => (d = post[t].date /\ posts[d] = post[t].title))]_vars

\* while no scrape has replaced the cloned article during the call, the entry
\* the publish removes is the article it published
C40_UnreplacedRemoved ==
    [][\A t \in Tasks : (PublishedStep(t) /\ ~stale[t]) =>
          (\A d \in DOMAIN posts :
               d \notin DOMAIN posts' => (d = post[t].date /\ posts[d] = post[t].title))]_vars

=============================================================================
